---- MODULE Spec2Model ----
(***************************************************************************)
(* Tuido: the task board (Tasks model + TasksController) and the topics   *)
(* edit tracker (TopicsController + the change handlers of TuidoApp).     *)
(*                                                                         *)
(* Two state machines carry most of the module:                            *)
(*   Spec        the task board: load, select, new/edit, move, delete      *)
(*   SpecTopics  the topics form: highlight, edit, save, discard, new,     *)
(*               delete                                                    *)
(* Each keeps the other machine's variables fixed.  Further                *)
(* specifications run parts of the two machines:                           *)
(*   SpecTopicIds    the topics form with the history of removed ids       *)
(*   SpecTasksModel  direct calls of Tasks.delete_task and                 *)
(*                   Tasks.add_task_to_dict_from_raw_data                  *)
(*   SpecSaveLoad    direct calls of add, save_to_file, load_from_file     *)
(*   SpecPrompts     a session on one tab, for the confirmation prompts    *)
(*   SpecPriority    the task board over stored priority numbers and       *)
(*                   typed priority names                                  *)
(*   SpecEditForm    the edit form in two steps (show, submit)             *)
(*   SpecNotes       the notes controller: concurrent text changes, the    *)
(*                   throttle and the debounce timers                      *)
(*   SpecScreen      the task edit screen (TaskEditScreen)                 *)
(*   SpecTheme       the theme loader's config file                        *)
(*                                                                         *)
(* Conventions.                                                            *)
(*  - Timestamps are counted in days since 1970-01-01 (the source counts   *)
(*    seconds; every date is a midnight, so the scale keeps order, zero    *)
(*    and differences in days).  The clock is UTC.                         *)
(*  - A handler that raises ends the application (the toolkit exits on an  *)
(*    unhandled exception in a handler): error # NoError is terminal.      *)
(*  - An action is a whole handler together with the change notifications  *)
(*    its widget writes post, which the toolkit delivers before the next   *)
(*    user event.                                                          *)
(***************************************************************************)
EXTENDS Integers, Sequences, FiniteSets, TLC

VARIABLES
    \* ---- task board ----
    tasks,                  \* Tasks.tasks: column name -> list of Task
    file,                   \* content of tasks.json: column name -> list of raw records,
                            \* or the empty text
    selected_column_name,   \* TasksTab.selected_column_name
    selected_task_index,    \* TasksTab.selected_task_index
    task_action,            \* TasksController.task_action
    index_of_new_task,      \* TasksController.index_of_new_task
    phase,                  \* "loaded" (models constructed) / "running" (widgets composed)
    last_task_op,           \* history: the task handler that ran last
    \* ---- topics ----
    topics,                 \* Topic.topics_by_id: id -> (field name -> value)
    table,                  \* rows of the topics table, as topic ids, top row first
    cursor_row,             \* DataTable.cursor_row
    inputs,                 \* live value of each form widget
    programmatically_changed_inputs,
    user_changed_inputs,
    table_disabled,         \* topics_table.disabled
    app_startup,            \* TopicsController.app_startup
    last_topic_op,          \* history: the last topics handler
    deleted_ids,            \* history: ids removed by a confirmed Delete
    \* ---- notes controller ----
    clock,                  \* time.time(), in seconds
    pc,                     \* position of each text_area_changed_action thread
    now,                    \* the local `now` of each thread
    last_throttle_call,     \* NotesController.last_throttle_call
    latest_text,            \* NotesController.latest_text
    debounce_timer,         \* NotesController.debounce_timer
    timers,                 \* the threading.Timer objects, by creating thread
    throttle_starts,        \* history: threads that started _throttle_action
    runs_since_change,      \* history: runs of _debounce_action since the last text change
    \* ---- task edit screen ----
    screen_open,            \* a TaskEditScreen is on the screen stack
    description_input,      \* value of each input of the open (or last) screen
    priority_input,
    start_date_input,
    end_date_input,
    invalid_inputs,         \* TaskEditScreen.invalid_inputs (class attribute)
    posted_message,         \* Submit message posted by the last Save, or NoMessage
    last_screen_op,         \* history: the last handler of the screen
    \* ---- theme loader ----
    theme_config_file,      \* state of the theme config file
    theme_file_writable,    \* the file can be opened for writing
    returned_theme,         \* result of the last get_previously_used_theme
    last_theme_op,          \* history: the last ThemeLoader call
    \* ---- all ----
    error                   \* exception that ended the application, or NoError

task_vars == <<tasks, file, selected_column_name, selected_task_index,
               task_action, index_of_new_task, phase, last_task_op>>
topic_vars == <<topics, table, cursor_row, inputs,
                programmatically_changed_inputs, user_changed_inputs,
                table_disabled, app_startup, last_topic_op, deleted_ids>>
notes_vars == <<clock, pc, now, last_throttle_call, latest_text, debounce_timer,
                timers, throttle_starts, runs_since_change>>
screen_vars == <<screen_open, description_input, priority_input, start_date_input,
                 end_date_input, invalid_inputs, posted_message, last_screen_op>>
theme_vars == <<theme_config_file, theme_file_writable, returned_theme, last_theme_op>>
other_vars == <<notes_vars, screen_vars, theme_vars>>
vars == <<task_vars, topic_vars, other_vars, error>>

NoError == "none"

(***************************************************************************)
(* Bounds                                                                  *)
(***************************************************************************)
MaxTasks == 2          \* tasks on the board
MaxTopicId == 2        \* largest topic id handed out

(***************************************************************************)
(* Sequence helpers                                                        *)
(***************************************************************************)
RemoveAt(s, i) == SubSeq(s, 1, i - 1) \o SubSeq(s, i + 1, Len(s))

InsertAt(s, i, x) == SubSeq(s, 1, i - 1) \o <<x>> \o SubSeq(s, i, Len(s))

Min2(a, b) == IF a < b THEN a ELSE b

Max2(a, b) == IF a > b THEN a ELSE b

(***************************************************************************)
(* Config: the task board columns, in their declared order                 *)
(***************************************************************************)
task_column_names == <<"inbox", "doing", "done">>

ConfigColumns == {task_column_names[i] : i \in 1..Len(task_column_names)}

ColumnIndex(name) == CHOOSE i \in 1..Len(task_column_names) : task_column_names[i] = name

(***************************************************************************)
(* Dates.  A date string is "", an unparseable text or a valid             *)
(* YYYY-MM-DD; date_to_timestamp parses it.                                *)
(***************************************************************************)
None == -1000000       \* Python's None where an int is expected

ValidDates == {"1969-12-31", "1970-01-01", "1970-01-02", "1970-01-03"}

DateStrings == ValidDates \cup {"", "not-a-date"}

\* strptime("%Y-%m-%d") followed by timestamp(), in days
DayNumber(date_str) ==
    CASE date_str = "1969-12-31" -> -1
      [] date_str = "1970-01-01" -> 0
      [] date_str = "1970-01-02" -> 1
      [] date_str = "1970-01-03" -> 2

date_to_timestamp(date_str) ==
    IF date_str \in ValidDates THEN DayNumber(date_str) ELSE None

today_timestamp == 1

date_diff(timestamp, today) == timestamp - today

\* Python truthiness of an int-or-None
Truthy(x) == x # None /\ x # 0

MAX_DATE == 376200     \* datetime(3000, 1, 1).timestamp(), in days

days_to(date_str) ==
    LET timestamp == date_to_timestamp(date_str)
    IN  IF Truthy(timestamp) THEN date_diff(timestamp, today_timestamp) ELSE None

(***************************************************************************)
(* Priorities and descriptions                                             *)
(***************************************************************************)
HIGH == 1
MEDIUM == 2
LOW == 3

\* a conversion that knows HIGH only
num_to_priority_NoMedium(priority_number) == IF priority_number = 1 THEN HIGH ELSE LOW

num_to_priority(priority_number) ==
    CASE priority_number = 1 -> HIGH
      [] priority_number = 2 -> MEDIUM
      [] OTHER -> LOW

Upper(s) ==
    CASE s \in {"High", "high", "HIGH"} -> "HIGH"
      [] s \in {"Medium", "medium", "MEDIUM"} -> "MEDIUM"
      [] s \in {"Low", "low", "LOW"} -> "LOW"
      [] OTHER -> s

priority_str_to_num(priority_string) ==
    CASE Upper(priority_string) = "HIGH" -> 1
      [] Upper(priority_string) = "MEDIUM" -> 2
      [] OTHER -> 3

Descriptions == {"a", "B", "b"}

Lower(description) == IF description = "B" THEN "b" ELSE description

\* position of a lower-cased description in string order
StrRank(s) == CASE s = "a" -> 1 [] s = "b" -> 2

(***************************************************************************)
(* Task objects                                                            *)
(***************************************************************************)
RawTask(description, priority, start_date, end_date) ==
    [description |-> description, priority |-> priority,
     start_date |-> start_date, end_date |-> end_date]

create_task_object_from_raw_data(column_name, task_dict) ==
    [column_name   |-> column_name,
     description   |-> task_dict.description,
     priority      |-> num_to_priority(task_dict.priority),
     start_date    |-> task_dict.start_date,
     end_date      |-> task_dict.end_date,
     days_to_start |-> days_to(task_dict.start_date),
     days_to_end   |-> days_to(task_dict.end_date)]

(***************************************************************************)
(* Ordering: list.sort is stable; the key of sort_tasks is a 4-tuple       *)
(* compared lexicographically, the key of the sort in                      *)
(* add_task_to_dict_from_raw_data is the priority alone.                   *)
(***************************************************************************)
TimestampOrMax(date_str) ==
    LET timestamp == date_to_timestamp(date_str)
    IN  IF Truthy(timestamp) THEN timestamp ELSE MAX_DATE

SortKey(task) ==
    <<task.priority, TimestampOrMax(task.start_date),
      TimestampOrMax(task.end_date), StrRank(Lower(task.description))>>

PriorityKey(task) == <<task.priority, 0, 0, 0>>

KeyOf(mode, task) == IF mode = "full" THEN SortKey(task) ELSE PriorityKey(task)

\* tuple comparison: k1 <= k2
KeyLeq(k1, k2) ==
    \/ k1[1] < k2[1]
    \/ k1[1] = k2[1] /\ k1[2] < k2[2]
    \/ k1[1] = k2[1] /\ k1[2] = k2[2] /\ k1[3] < k2[3]
    \/ k1[1] = k2[1] /\ k1[2] = k2[2] /\ k1[3] = k2[3] /\ k1[4] <= k2[4]

\* x goes behind every element of the sorted list s whose key is <= its own
StableInsert(mode, s, x) ==
    LET n == Cardinality({i \in 1..Len(s) : KeyLeq(KeyOf(mode, s[i]), KeyOf(mode, x))})
    IN  InsertAt(s, n + 1, x)

RECURSIVE SortList(_, _)
SortList(mode, s) ==
    IF s = <<>> THEN <<>>
    ELSE StableInsert(mode, SortList(mode, SubSeq(s, 1, Len(s) - 1)), s[Len(s)])

sort_tasks(board) == [c \in DOMAIN board |-> SortList("full", board[c])]

generate_tasks_dict(tasks_raw) ==
    sort_tasks([c \in DOMAIN tasks_raw |->
        [i \in 1..Len(tasks_raw[c]) |->
            create_task_object_from_raw_data(c, tasks_raw[c][i])]])

add_task_to_dict_from_raw_data(board, column_name, task_dict) ==
    [board EXCEPT ![column_name] =
        SortList("priority",
                 Append(@, create_task_object_from_raw_data(column_name, task_dict)))]

\* a removal without the lower bound test: a negative index counts from
\* the end of the list, as `del list[-1]` does
delete_task_NoLowerBound(board, column_name, task_index) ==
    IF column_name \in DOMAIN board
       /\ 0 - Len(board[column_name]) <= task_index
       /\ task_index < Len(board[column_name])
    THEN [board EXCEPT ![column_name] =
            RemoveAt(@, IF task_index < 0 THEN Len(@) + task_index + 1
                        ELSE task_index + 1)]
    ELSE board

\* a removal that leaves the list as it was
delete_task_KeepsTask(board, column_name, task_index) == board

\* task_index is 0-based, as in the source
delete_task(board, column_name, task_index) ==
    IF column_name \in DOMAIN board
       /\ 0 <= task_index /\ task_index < Len(board[column_name])
    THEN [board EXCEPT ![column_name] = RemoveAt(@, task_index + 1)]
    ELSE board

\* a cleaned board that still carries the computed day offsets
get_cleaned_tasks_dict_KeepsComputed(board) ==
    [c \in DOMAIN board |->
        [i \in 1..Len(board[c]) |->
            [description |-> board[c][i].description, priority |-> board[c][i].priority,
             start_date |-> board[c][i].start_date, end_date |-> board[c][i].end_date,
             days_to_start |-> board[c][i].days_to_start,
             days_to_end |-> board[c][i].days_to_end]]]

get_cleaned_tasks_dict(board) ==
    [c \in DOMAIN board |->
        [i \in 1..Len(board[c]) |->
            RawTask(board[c][i].description, board[c][i].priority,
                    board[c][i].start_date, board[c][i].end_date)]]

(***************************************************************************)
(* Rendering of a column (TasksTab.create_list_items): comparing a         *)
(* days_to_* that is None with 0 raises TypeError.                         *)
(***************************************************************************)
start_date_text_and_style_raises(task) ==
    /\ task.start_date # ""
    /\ \/ task.days_to_start = None
       \/ task.days_to_start # None /\ task.days_to_start < 0 /\ task.days_to_end = None

end_date_text_and_style_raises(task) ==
    task.end_date # "" /\ task.days_to_end = None

create_list_items_raises(board, column_name) ==
    /\ column_name \in DOMAIN board
    /\ \E i \in 1..Len(board[column_name]) :
          \/ start_date_text_and_style_raises(board[column_name][i])
          \/ end_date_text_and_style_raises(board[column_name][i])

ColumnLen(board, c) == IF c \in DOMAIN board THEN Len(board[c]) ELSE 0

RECURSIVE SumLen(_, _)
SumLen(board, cols) ==
    IF cols = {} THEN 0
    ELSE LET c == CHOOSE x \in cols : TRUE
         IN  Len(board[c]) + SumLen(board, cols \ {c})

TotalTasks(board) == SumLen(board, DOMAIN board)

(***************************************************************************)
(* The task board machine                                                  *)
(***************************************************************************)
Unset == "<unset>"     \* an attribute that was never assigned

TaskAction_NEW == "new"
TaskAction_EDIT == "edit"
LEFT == "left"
RIGHT == "right"

\* what the task form can submit: (description, priority, start date, end date)
Message(description, priority, start_date, end_date) ==
    [description |-> description, priority |-> priority,
     start_date |-> start_date, end_date |-> end_date]

Messages ==
    { Message("a", "High", "", ""),
      Message("B", "High", "", ""),
      Message("B", "low", "1970-01-03", ""),
      Message("a", "High", "1970-01-03", ""),
      Message("a", "High", "1970-01-03", "1970-01-03"),
      Message("a", "High", "1970-01-01", ""),
      Message("a", "High", "1969-12-31", "") }

\* contents of tasks.json found at startup
EmptyColumns == [c \in ConfigColumns |-> <<>>]

LoadSamples ==
    { [c \in {} |-> <<>>],
      EmptyColumns,
      [c \in {"doing", "done"} |->
          IF c = "doing" THEN <<RawTask("a", 1, "", "")>> ELSE <<>>],
      [EmptyColumns EXCEPT !["inbox"] =
          <<RawTask("B", 7, "1970-01-03", ""), RawTask("B", 1, "", "")>>],
      [EmptyColumns EXCEPT !["doing"] =
          <<RawTask("a", 1, "1970-01-03", ""), RawTask("a", 1, "1970-01-03", "1970-01-03")>>],
      [EmptyColumns EXCEPT !["inbox"] =
          <<RawTask("a", 1, "1970-01-01", ""), RawTask("a", 1, "1970-01-03", "")>>],
      [EmptyColumns EXCEPT !["done"] =
          <<RawTask("a", 2, "not-a-date", "")>>] }

(***************************************************************************)
(* The notes controller, the task edit screen and the theme loader as      *)
(* constructed.  The task board and the topics form leave them alone.      *)
(***************************************************************************)
throttle_interval == 5     \* seconds
debounce_interval == 5     \* seconds

\* the threads NotesTab.update_markdown starts, one per TextArea.Changed,
\* named in the order in which they begin
Calls == {"c1", "c2", "c3"}

Earlier(c) == CASE c = "c1" -> {} [] c = "c2" -> {"c1"} [] c = "c3" -> {"c1", "c2"}

NoTimer == "None"

\* a threading.Timer: finished is its Event (set by cancel and after a run)
NewTimer == [created |-> FALSE, started |-> FALSE, finished |-> FALSE, ran |-> FALSE, deadline |-> 0]

\* NotesController's class attributes; no thread exists yet.  The clock is
\* at least one interval past the epoch.
NotesInit ==
    /\ clock = throttle_interval
    /\ pc = [c \in Calls |-> "unborn"]
    /\ now = [c \in Calls |-> 0]
    /\ last_throttle_call = 0
    /\ latest_text = ""
    /\ debounce_timer = NoTimer
    /\ timers = [c \in Calls |-> NewTimer]
    /\ throttle_starts = {}
    /\ runs_since_change = 0

BLANK == "Select.BLANK"

\* a TaskEditScreen.Submit message, and the value that stands for none
Submit(description, priority, start_date, end_date) ==
    [description |-> description, priority |-> priority,
     start_date |-> start_date, end_date |-> end_date]

NoMessage == Submit(Unset, Unset, Unset, Unset)

\* the class TaskEditScreen as defined: no screen was constructed yet
ScreenInit ==
    /\ screen_open = FALSE
    /\ description_input = ""
    /\ priority_input = BLANK
    /\ start_date_input = ""
    /\ end_date_input = ""
    /\ invalid_inputs = {}
    /\ posted_message = NoMessage
    /\ last_screen_op = "init"

\* the theme config file: what a reader finds, and the theme entry if the
\* file holds a JSON object with one
ThemeFile(kind, theme) == [kind |-> kind, theme |-> theme]

Missing == ThemeFile("missing", "")

\* a ThemeLoader call and its argument
ThemeOp(op, arg) == [op |-> op, arg |-> arg]

\* no theme config file was written yet
ThemeInit ==
    /\ theme_config_file = Missing
    /\ theme_file_writable = TRUE
    /\ returned_theme = Unset
    /\ last_theme_op = ThemeOp("init", "")

OthersIdle == NotesInit /\ ScreenInit /\ ThemeInit

\* the topics machine at rest, for the task board specification
TopicsIdle ==
    /\ topics = <<>>
    /\ table = <<>>
    /\ cursor_row = 0
    /\ inputs = <<>>
    /\ programmatically_changed_inputs = {}
    /\ user_changed_inputs = {}
    /\ table_disabled = FALSE
    /\ app_startup = TRUE
    /\ last_topic_op = "init"
    /\ deleted_ids = {}

\* Tasks.__init__ and TasksController.__init__
\* Tasks.load_from_file finds no tasks.json: it writes a file of empty text
\* and hands it to json.load, which raises on a text that is no JSON value.
CreatedFile == ""

load_from_file_creates ==
    /\ file = CreatedFile
    /\ tasks = [c \in {} |-> <<>>]
    /\ last_task_op = "load_created_file"
    /\ error = "JSONDecodeError"

\* Tasks.load_from_file finds tasks.json
load_from_file_reads ==
    /\ \E tasks_raw \in LoadSamples :
          /\ file = tasks_raw
          /\ tasks = generate_tasks_dict(tasks_raw)
    /\ last_task_op = "load"
    /\ error = NoError

Init ==
    /\ (load_from_file_reads \/ load_from_file_creates)
    /\ selected_column_name = Unset
    /\ selected_task_index = 0
    /\ task_action = Unset
    /\ index_of_new_task = -1
    /\ phase = "loaded"
    /\ TopicsIdle
    /\ OthersIdle

\* TasksTab.compose: every configured column is rendered
Compose ==
    /\ phase = "loaded" /\ error = NoError
    /\ phase' = "running"
    /\ error' = IF \E c \in ConfigColumns : create_list_items_raises(tasks, c)
                THEN "TypeError" ELSE NoError
    /\ last_task_op' = "compose"
    /\ UNCHANGED <<tasks, file, selected_column_name, selected_task_index,
                   task_action, index_of_new_task, topic_vars, other_vars>>

\* CustomListView.on_focus / on_key / on_list_view_selected: index is the
\* list view's index, "or 0" when the list is empty
SelectTask(column_name, index) ==
    /\ phase = "running" /\ error = NoError
    /\ column_name \in ConfigColumns
    /\ index \in 0..Max2(ColumnLen(tasks, column_name) - 1, 0)
    /\ selected_column_name' = column_name
    /\ selected_task_index' = index
    /\ last_task_op' = "select"
    /\ UNCHANGED <<tasks, file, task_action, index_of_new_task, phase, error, topic_vars, other_vars>>

\* TasksController.store_index_of_new_task (0-based result)
store_index_of_new_task(tasks_list_old, tasks_list_new) ==
    LET hits == {i \in 0..(Len(tasks_list_new) - 1) :
                    Len(tasks_list_old) >= i + 1 /\ tasks_list_new[i + 1] # tasks_list_old[i + 1]}
    IN  IF hits = {} THEN -1 ELSE CHOOSE i \in hits : \A j \in hits : i <= j

\* a save that writes the board in the order it had before the sort
save_to_file_Unsorted(board) == get_cleaned_tasks_dict(board)

\* Tasks.save_to_file: sorts, then writes the cleaned board
save_to_file(board) == get_cleaned_tasks_dict(sort_tasks(board))

\* TasksController.save_task, after show_task_form(task_action) and the form's Submit.
\* column_name is where the task goes, board the model after the EDIT removal.
SaveTaskInto(column_name, board, message) ==
    LET task_raw == RawTask(message.description,
                            priority_str_to_num(message.priority),
                            message.start_date, message.end_date)
    IN  IF column_name \notin DOMAIN board
        THEN /\ error' = "KeyError"
             /\ tasks' = board
             /\ UNCHANGED <<file, index_of_new_task>>
        ELSE LET tasks_list_old == board[column_name]
                 added == add_task_to_dict_from_raw_data(board, column_name, task_raw)
                 saved == sort_tasks(added)
             IN  /\ tasks' = saved
                 /\ file' = save_to_file(added)
                 /\ IF create_list_items_raises(saved, column_name)
                    THEN /\ error' = "TypeError"
                         /\ UNCHANGED index_of_new_task
                    ELSE /\ error' = NoError
                         /\ index_of_new_task' =
                               store_index_of_new_task(tasks_list_old, saved[column_name])

\* action_tasks_new, the form, on_task_edit_screen_submit -> save_task
NewTask(message) ==
    /\ phase = "running" /\ error = NoError
    /\ TotalTasks(tasks) < MaxTasks
    /\ task_action' = TaskAction_NEW
    /\ SaveTaskInto(task_column_names[1], tasks, message)
    /\ UNCHANGED <<selected_column_name, selected_task_index, phase, topic_vars, other_vars>>
    /\ last_task_op' = "new"

\* action_tasks_edit, set_task_form_input_values, the form, save_task
EditTask(message) ==
    /\ phase = "running" /\ error = NoError
    /\ task_action' = TaskAction_EDIT
    /\ UNCHANGED <<selected_column_name, selected_task_index, phase, topic_vars, other_vars>>
    /\ IF selected_column_name = Unset
       THEN error' = "AttributeError" /\ UNCHANGED <<tasks, file, index_of_new_task>>
       ELSE IF selected_column_name \notin DOMAIN tasks
       THEN error' = "KeyError" /\ UNCHANGED <<tasks, file, index_of_new_task>>
       ELSE IF selected_task_index >= Len(tasks[selected_column_name])
       THEN error' = "IndexError" /\ UNCHANGED <<tasks, file, index_of_new_task>>
       ELSE SaveTaskInto(selected_column_name,
                         delete_task(tasks, selected_column_name, selected_task_index),
                         message)
    /\ last_task_op' = "edit"

\* a target that wraps around at the first and the last column
TargetColumnIndex_Wraps(source_column_index, move_direction) ==
    IF move_direction = LEFT
    THEN (IF source_column_index = 1 THEN Len(task_column_names) ELSE source_column_index - 1)
    ELSE (IF source_column_index = Len(task_column_names) THEN 1 ELSE source_column_index + 1)

\* max/min clamp the target to the configured columns (1-based here)
TargetColumnIndex(source_column_index, move_direction) ==
    IF move_direction = LEFT
    THEN Max2(source_column_index - 1, 1)
    ELSE Min2(source_column_index + 1, Len(task_column_names))

\* position (0-based) of the first task equal to task in the list, 0 if none
FirstIndexOf(tasks_list, task) ==
    LET hits == {i \in 0..(Len(tasks_list) - 1) : tasks_list[i + 1] = task}
    IN  IF hits = {} THEN 0 ELSE CHOOSE i \in hits : \A j \in hits : i <= j

\* TasksController.move_task
MoveTask(move_direction) ==
    /\ phase = "running" /\ error = NoError
    /\ UNCHANGED <<task_action, index_of_new_task, phase, topic_vars, other_vars>>
    /\ IF selected_column_name = Unset
       THEN /\ error' = "AttributeError"
            /\ UNCHANGED <<tasks, file, selected_column_name, selected_task_index>>
       ELSE
       LET source_column_name == selected_column_name
           source_column_index == ColumnIndex(source_column_name)
           target_column_index == TargetColumnIndex(source_column_index, move_direction)
           target_column_name == task_column_names[target_column_index]
       IN  IF source_column_index = target_column_index
           THEN UNCHANGED <<tasks, file, selected_column_name, selected_task_index, error>>
           ELSE IF source_column_name \notin DOMAIN tasks
           THEN /\ error' = "KeyError"
                /\ UNCHANGED <<tasks, file, selected_column_name, selected_task_index>>
           ELSE IF Len(tasks[source_column_name]) = 0
           THEN UNCHANGED <<tasks, file, selected_column_name, selected_task_index, error>>
           ELSE IF selected_task_index >= Len(tasks[source_column_name])
           THEN /\ error' = "IndexError"
                /\ UNCHANGED <<tasks, file, selected_column_name, selected_task_index>>
           ELSE
           LET task_to_move == [tasks[source_column_name][selected_task_index + 1]
                                   EXCEPT !.column_name = target_column_name]
               removed == delete_task(tasks, source_column_name, selected_task_index)
               with_target == IF target_column_name \in DOMAIN removed
                              THEN removed
                              ELSE [c \in DOMAIN removed \cup {target_column_name} |->
                                       IF c = target_column_name THEN <<>> ELSE removed[c]]
               appended == [with_target EXCEPT ![target_column_name] = Append(@, task_to_move)]
               sorted == sort_tasks(appended)
           IN  /\ tasks' = sorted
               /\ file' = save_to_file(sorted)
               /\ IF \/ create_list_items_raises(sorted, source_column_name)
                     \/ create_list_items_raises(sorted, target_column_name)
                  THEN /\ error' = "TypeError"
                       /\ UNCHANGED <<selected_column_name, selected_task_index>>
                  ELSE /\ error' = NoError
                       /\ selected_column_name' = target_column_name
                       /\ selected_task_index' =
                             FirstIndexOf(sorted[target_column_name], task_to_move)
    /\ last_task_op' = IF move_direction = LEFT THEN "move_left" ELSE "move_right"

\* a Delete binding that runs delete_selected_task whatever the prompt returned
DeleteSelectedTask_Unasked(answer) ==
    /\ phase \in {"running", "form"} /\ error = NoError
    /\ UNCHANGED <<selected_column_name, selected_task_index, task_action,
                   index_of_new_task, phase, topic_vars, other_vars>>
    /\ IF selected_column_name = Unset
       THEN error' = "AttributeError" /\ UNCHANGED <<tasks, file>>
       ELSE LET removed == delete_task(tasks, selected_column_name, selected_task_index)
            IN  /\ tasks' = sort_tasks(removed)
                /\ file' = save_to_file(removed)
                /\ error' = IF create_list_items_raises(sort_tasks(removed), selected_column_name)
                            THEN "TypeError" ELSE NoError
    /\ last_task_op' = IF answer THEN "delete" ELSE "delete_canceled"

\* action_tasks_delete: the question screen, then delete_selected_task.
\* check_action enables the binding by the tab alone, so it also runs while
\* the task form is shown (phase "form").
DeleteSelectedTask(answer) ==
    /\ phase \in {"running", "form"} /\ error = NoError
    /\ UNCHANGED <<selected_column_name, selected_task_index, task_action,
                   index_of_new_task, phase, topic_vars, other_vars>>
    /\ IF ~answer
       THEN UNCHANGED <<tasks, file, error>>
       ELSE IF selected_column_name = Unset
       THEN error' = "AttributeError" /\ UNCHANGED <<tasks, file>>
       ELSE LET removed == delete_task(tasks, selected_column_name, selected_task_index)
            IN  /\ tasks' = sort_tasks(removed)
                /\ file' = save_to_file(removed)
                /\ error' = IF create_list_items_raises(sort_tasks(removed), selected_column_name)
                            THEN "TypeError" ELSE NoError
    /\ last_task_op' = IF answer THEN "delete" ELSE "delete_canceled"

Next ==
    \/ Compose
    \/ \E c \in ConfigColumns, i \in 0..MaxTasks : SelectTask(c, i)
    \/ \E message \in Messages : NewTask(message)
    \/ \E message \in Messages : EditTask(message)
    \/ \E move_direction \in {LEFT, RIGHT} : MoveTask(move_direction)
    \/ \E answer \in BOOLEAN : DeleteSelectedTask(answer)

Spec == Init /\ [][Next]_vars

(***************************************************************************)
(* The ordering key of the specification: a valid date counts by its       *)
(* timestamp, an unset or unparseable date as far in the future.           *)
(***************************************************************************)
KeyTimestamp(date_str) ==
    IF date_str \in ValidDates THEN DayNumber(date_str) ELSE MAX_DATE

OrderingKey(task) ==
    <<task.priority, KeyTimestamp(task.start_date), KeyTimestamp(task.end_date),
      StrRank(Lower(task.description))>>

SortedByOrderingKey(tasks_list) ==
    \A i \in 1..(Len(tasks_list) - 1) :
        KeyLeq(OrderingKey(tasks_list[i]), OrderingKey(tasks_list[i + 1]))

MutatingTaskOps == {"new", "edit", "move_left", "move_right", "delete"}

\* C1: after load and after every completed mutating task operation every
\* column is sorted non-decreasingly by (priority, start timestamp, end
\* timestamp, lower-cased description), unset dates read as far-future.
\* The code reads the valid date 1970-01-01 (timestamp 0) as unset.
C1_ColumnsSortedAfterOperation ==
    (error = NoError /\ last_task_op \in MutatingTaskOps \cup {"load"})
        => \A c \in DOMAIN tasks : SortedByOrderingKey(tasks[c])

\* C2: a move_task that moves the selected task keeps the number of tasks,
\* puts the task, with column_name = target, into the neighbouring column,
\* takes it out of the source, and leaves source and target sorted.
C2_MovePreservesCountAndOrder ==
    [][(last_task_op' \in {"move_left", "move_right"} /\ tasks' # tasks) =>
        LET source == selected_column_name
            target == task_column_names[
                         IF last_task_op' = "move_left"
                         THEN ColumnIndex(source) - 1 ELSE ColumnIndex(source) + 1]
            moved == [tasks[source][selected_task_index + 1] EXCEPT !.column_name = target]
        IN  /\ TotalTasks(tasks') = TotalTasks(tasks)
            /\ Len(tasks'[source]) = Len(tasks[source]) - 1
            /\ Len(tasks'[target]) = ColumnLen(tasks, target) + 1
            /\ \E i \in 1..Len(tasks'[target]) : tasks'[target][i] = moved
            /\ \A c \in DOMAIN tasks' : \A i \in 1..Len(tasks'[c]) :
                  tasks'[c][i].column_name = c
            /\ SortedByOrderingKey(tasks'[source])
            /\ SortedByOrderingKey(tasks'[target])
            /\ error' = NoError
    ]_vars

\* a move into a column that already held a task has happened
C2_Witness ==
    /\ last_task_op = "move_right" /\ error = NoError
    /\ selected_column_name = "doing"
    /\ "doing" \in DOMAIN tasks /\ Len(tasks["doing"]) = 2
    /\ tasks["doing"][1].priority = tasks["doing"][2].priority

(***************************************************************************)
(* Topics: Config.columns and the form widgets made for them               *)
(* (TopicFormWidgets.create_widget): a one-line string field is an Input,  *)
(* a string field with lines # 1 a TextArea, a select field a Select.      *)
(***************************************************************************)
columns == <<"title", "notes", "status">>

Fields == {columns[i] : i \in 1..Len(columns)}

FieldWidget(field) ==
    CASE field = "title" -> "Input"
      [] field = "notes" -> "TextArea"
      [] field = "status" -> "Select"


TextValues == {"", "x"}
SelectOptions == {"open"}

\* the values a widget can hold
WidgetValues(field) ==
    IF FieldWidget(field) = "Select" THEN SelectOptions \cup {BLANK} ELSE TextValues

\* the values a stored field can hold
StoredValues(field) ==
    IF FieldWidget(field) = "Select" THEN SelectOptions \cup {""} ELSE TextValues

\* rows of the table after sort_table_by_id: ids in descending order
RECURSIVE sort_table_by_id(_)
sort_table_by_id(ids) ==
    IF ids = {} THEN <<>>
    ELSE LET top == CHOOSE i \in ids : \A j \in ids : j <= i
         IN  <<top>> \o sort_table_by_id(ids \ {top})

\* TopicsDataTable.get_current_id; the caller checks that the table has rows
get_current_id(rows, row) == rows[row + 1]

\* the stored value of a field, a missing field read as ''
OriginalValue(store, topic_id, field) ==
    IF field \in DOMAIN store[topic_id] THEN store[topic_id][field] ELSE ""

\* the value of a widget as the handlers read it: a blank selection is ''
CurrentValue(widget_value) == IF widget_value = BLANK THEN "" ELSE widget_value

\* TopicsController.set_input_field_value: what the widget holds afterwards
set_input_field_value(field, value) ==
    IF FieldWidget(field) = "Select" /\ value = "" THEN BLANK ELSE value

\* Whether a programmatic write posts a Changed message: an Input and a
\* Select post it when their reactive value changes, a TextArea on every
\* assignment of its text.
PostsChanged(field, old_value, new_value) ==
    FieldWidget(field) = "TextArea" \/ old_value # new_value

\* a comparison that never takes a field out of the dirty-set
compare_input_value_to_original_NeverCleans(dirty, compared, widget_values, store, topic_id) ==
    dirty \cup {f \in compared :
                CurrentValue(widget_values[f]) # OriginalValue(store, topic_id, f)}

\* TuidoApp.compare_input_value_to_original, for the fields in compared,
\* each read against the stored topic: the dirty-set afterwards
compare_input_value_to_original(dirty, compared, widget_values, store, topic_id) ==
    (dirty \ compared)
        \cup {f \in compared :
                CurrentValue(widget_values[f]) # OriginalValue(store, topic_id, f)}

\* TopicsController.update_input_fields followed by the delivery of the
\* Changed messages of its writes (on_input_changed, on_text_area_changed,
\* on_select_changed).  Yields the widget values, the suppress-set, the
\* dirty-set and the table's disabled flag.
update_input_fields(rows, row, store, widget_values, suppress, dirty, disabled, startup, called_from_discard) ==
    LET selected_id == get_current_id(rows, row)
        written == [f \in Fields |->
                       set_input_field_value(f, OriginalValue(store, selected_id, f))]
        added == IF ~startup /\ ~called_from_discard THEN Fields ELSE {}
        posted == {f \in Fields : PostsChanged(f, widget_values[f], written[f])}
        ignored == posted \cap (suppress \cup added)
        compared == posted \ ignored
        dirty_after == compare_input_value_to_original(dirty, compared, written,
                                                       store, selected_id)
    IN  [inputs |-> written,
         programmatically_changed_inputs |-> (suppress \cup added) \ ignored,
         user_changed_inputs |-> dirty_after,
         table_disabled |-> IF compared = {} THEN disabled ELSE dirty_after # {}]

(***************************************************************************)
(* The topics machine                                                      *)
(***************************************************************************)
Topic(title, notes, status) ==
    [f \in Fields |-> CASE f = "title" -> title [] f = "notes" -> notes [] f = "status" -> status]

\* contents of topics.json found at startup
TopicSamples ==
    { [i \in {} |-> Topic("", "", "")],
      [i \in {1, 2} |-> IF i = 1 THEN Topic("x", "", "open") ELSE Topic("x", "x", "")],
      [i \in {2} |-> [f \in {"title"} |-> "x"]] }

\* the task board at rest, for the topics specification
TasksIdle ==
    /\ tasks = EmptyColumns
    /\ file = EmptyColumns
    /\ selected_column_name = Unset
    /\ selected_task_index = 0
    /\ task_action = Unset
    /\ index_of_new_task = -1
    /\ last_task_op = "load"

\* Topic.__init__, TopicsController.__init__, the widgets as composed
InitTopics ==
    /\ topics \in TopicSamples
    /\ table = <<>>
    /\ cursor_row = 0
    /\ inputs = [f \in Fields |-> IF FieldWidget(f) = "Select" THEN BLANK ELSE ""]
    /\ programmatically_changed_inputs = {}
    /\ user_changed_inputs = {}
    /\ table_disabled = FALSE
    /\ app_startup = TRUE
    /\ last_topic_op = "init"
    /\ deleted_ids = {}
    /\ phase = "loaded"
    /\ error = NoError
    /\ TasksIdle
    /\ OthersIdle

\* TuidoApp.on_data_table_row_highlighted with the cursor on row of rows
on_data_table_row_highlighted(rows, row, store) ==
    LET r == update_input_fields(rows, row, store, inputs,
                                 programmatically_changed_inputs,
                                 user_changed_inputs, table_disabled,
                                 app_startup, FALSE)
    IN  /\ inputs' = r.inputs
        /\ programmatically_changed_inputs' = r.programmatically_changed_inputs
        /\ user_changed_inputs' = r.user_changed_inputs
        /\ table_disabled' = r.table_disabled
        /\ app_startup' = FALSE

\* TuidoApp.on_mount: initialize_topics_table; the first row added to the
\* table posts RowHighlighted
TopicsMount ==
    /\ phase = "loaded" /\ error = NoError
    /\ phase' = "running"
    /\ table' = sort_table_by_id(DOMAIN topics)
    /\ IF DOMAIN topics # {}
       THEN on_data_table_row_highlighted(table', 0, topics)
       ELSE UNCHANGED <<inputs, programmatically_changed_inputs, user_changed_inputs,
                        table_disabled, app_startup>>
    /\ last_topic_op' = "mount"
    /\ UNCHANGED <<topics, cursor_row, error, tasks, file, selected_column_name,
                   selected_task_index, task_action, index_of_new_task, last_task_op>>
    /\ UNCHANGED <<deleted_ids, other_vars>>

\* the user moves the table cursor to another row; a disabled table takes no input
HighlightRow(row) ==
    /\ phase = "running" /\ error = NoError
    /\ ~table_disabled
    /\ row \in 0..(Len(table) - 1) /\ row # cursor_row
    /\ cursor_row' = row
    /\ on_data_table_row_highlighted(table, row, topics)
    /\ last_topic_op' = "highlight"
    /\ UNCHANGED <<topics, table, phase, error, tasks, file, selected_column_name,
                   selected_task_index, task_action, index_of_new_task, last_task_op>>
    /\ UNCHANGED <<deleted_ids, other_vars>>

\* the user changes the value of a form widget: on_input_changed,
\* on_text_area_changed or on_select_changed
UserEdit(field, value) ==
    /\ phase = "running" /\ error = NoError
    /\ value \in WidgetValues(field) /\ value # inputs[field]
    /\ inputs' = [inputs EXCEPT ![field] = value]
    /\ last_topic_op' = "edit"
    /\ UNCHANGED <<topics, table, cursor_row, app_startup, phase, tasks, file,
                   selected_column_name, selected_task_index, task_action,
                   index_of_new_task, last_task_op>>
    /\ UNCHANGED <<deleted_ids, other_vars>>
    /\ IF field \in programmatically_changed_inputs
       THEN /\ programmatically_changed_inputs' = programmatically_changed_inputs \ {field}
            /\ UNCHANGED <<user_changed_inputs, table_disabled, error>>
       ELSE IF table = <<>>
       THEN /\ error' = "RowDoesNotExist"
            /\ UNCHANGED <<programmatically_changed_inputs, user_changed_inputs,
                           table_disabled>>
       ELSE /\ user_changed_inputs' =
                  compare_input_value_to_original(user_changed_inputs, {field}, inputs',
                                                  topics, get_current_id(table, cursor_row))
            /\ table_disabled' = (user_changed_inputs' # {})
            /\ UNCHANGED <<programmatically_changed_inputs, error>>

\* TopicsController.save_topic: the stored topic after the save
\* Topic.update_topic: the record of topic_id is replaced
update_topic_in_model(store, topic_id, updated_topic) ==
    [store EXCEPT ![topic_id] = updated_topic]

\* a save that stores the widget values as they are, the blank selection included
save_topic_KeepsBlank(store, topic_id, widget_values) ==
    update_topic_in_model(store, topic_id, [f \in Fields |-> widget_values[f]])

\* TopicsController.save_topic: every Config field is read from its widget,
\* a blank selection as ''
save_topic(store, topic_id, widget_values) ==
    update_topic_in_model(store, topic_id, [f \in Fields |-> CurrentValue(widget_values[f])])

\* TuidoApp.action_topics_save
TopicsSave ==
    /\ phase = "running" /\ error = NoError
    /\ last_topic_op' = "save"
    /\ UNCHANGED <<table, cursor_row, inputs, programmatically_changed_inputs,
                   user_changed_inputs, app_startup, phase, tasks, file,
                   selected_column_name, selected_task_index, task_action,
                   index_of_new_task, last_task_op>>
    /\ UNCHANGED <<deleted_ids, other_vars>>
    /\ IF table = <<>>
       THEN error' = "RowDoesNotExist" /\ UNCHANGED <<topics, table_disabled>>
       ELSE /\ topics' = save_topic(topics, get_current_id(table, cursor_row), inputs)
            /\ table_disabled' = FALSE
            /\ error' = NoError

\* TuidoApp.action_topics_discard: the question screen, then
\* update_input_fields(called_from_discard=True)
TopicsDiscard(answer) ==
    /\ phase = "running" /\ error = NoError
    /\ last_topic_op' = IF answer THEN "discard" ELSE "discard_canceled"
    /\ UNCHANGED <<topics, table, cursor_row, app_startup, phase, tasks, file,
                   selected_column_name, selected_task_index, task_action,
                   index_of_new_task, last_task_op>>
    /\ UNCHANGED <<deleted_ids, other_vars>>
    /\ IF ~answer
       THEN UNCHANGED <<inputs, programmatically_changed_inputs, user_changed_inputs,
                        table_disabled, error>>
       ELSE IF table = <<>>
       THEN /\ error' = "RowDoesNotExist"
            /\ UNCHANGED <<inputs, programmatically_changed_inputs, user_changed_inputs,
                           table_disabled>>
       ELSE LET r == update_input_fields(table, cursor_row, topics, inputs,
                                         programmatically_changed_inputs,
                                         user_changed_inputs, table_disabled,
                                         app_startup, TRUE)
            IN  /\ inputs' = r.inputs
                /\ programmatically_changed_inputs' = r.programmatically_changed_inputs
                /\ user_changed_inputs' = r.user_changed_inputs
                /\ table_disabled' = r.table_disabled
                /\ error' = NoError

\* Topic.create_new_topic: the new record joins the collection
create_new_topic_in_model(store, new_topic_id, new_topic) ==
    [i \in DOMAIN store \cup {new_topic_id} |->
        IF i = new_topic_id THEN new_topic ELSE store[i]]

\* an id taken from the number of topics instead of the largest id
NewTopicId_ByCount(store) == Cardinality(DOMAIN store) + 1

\* TopicsController.create_new_topic: max id + 1, every field ''
NewTopicId(store) ==
    IF DOMAIN store = {} THEN 1
    ELSE (CHOOSE i \in DOMAIN store : \A j \in DOMAIN store : j <= i) + 1

\* a creation that gives the new topic the title of a template
create_new_topic_Titled(store) ==
    create_new_topic_in_model(store, NewTopicId(store),
                              [f \in Fields |-> IF f = "title" THEN "x" ELSE ""])

create_new_topic(store) ==
    create_new_topic_in_model(store, NewTopicId(store), [f \in Fields |-> ""])

\* TuidoApp.action_topics_new.  The new row sorts to the top; the cursor
\* keeps its row number, and only the first row of an empty table posts
\* RowHighlighted.
TopicsNew ==
    /\ phase = "running" /\ error = NoError
    /\ NewTopicId(topics) <= MaxTopicId
    /\ UNCHANGED <<cursor_row, phase, error, tasks, file, selected_column_name,
                   selected_task_index, task_action, index_of_new_task, last_task_op>>
    /\ UNCHANGED <<deleted_ids, other_vars>>
    /\ IF user_changed_inputs # {}
       THEN /\ last_topic_op' = "new_refused"
            /\ UNCHANGED <<topics, table, inputs, programmatically_changed_inputs,
                           user_changed_inputs, table_disabled, app_startup>>
       ELSE /\ last_topic_op' = "new"
            /\ topics' = create_new_topic(topics)
            /\ table' = sort_table_by_id(DOMAIN topics')
            /\ IF table = <<>>
               THEN on_data_table_row_highlighted(table', 0, topics')
               ELSE UNCHANGED <<inputs, programmatically_changed_inputs,
                                user_changed_inputs, table_disabled, app_startup>>

\* Topic.delete_topic: the record leaves the collection
delete_topic_in_model(store, topic_id) ==
    [i \in DOMAIN store \ {topic_id} |-> store[i]]

\* TuidoApp.action_topics_delete: the question screen, then
\* TopicsController.delete_topic.  Removing the last row moves the cursor up
\* and posts RowHighlighted; removing another row leaves the cursor's row
\* number, now over the row below.
TopicsDeleteHandler(answer) ==
    /\ phase = "running" /\ error = NoError
    /\ last_topic_op' = IF answer THEN "delete" ELSE "delete_canceled"
    /\ UNCHANGED <<phase, tasks, file, selected_column_name, selected_task_index,
                   task_action, index_of_new_task, last_task_op>>
    /\ IF ~answer
       THEN UNCHANGED <<topics, table, cursor_row, inputs, programmatically_changed_inputs,
                        user_changed_inputs, table_disabled, app_startup, error>>
       ELSE IF table = <<>>
       THEN /\ error' = "RowDoesNotExist"
            /\ UNCHANGED <<topics, table, cursor_row, inputs,
                           programmatically_changed_inputs, user_changed_inputs,
                           table_disabled, app_startup>>
       ELSE LET topic_id == get_current_id(table, cursor_row)
            IN  /\ topics' = delete_topic_in_model(topics, topic_id)
                /\ table' = RemoveAt(table, cursor_row + 1)
                /\ cursor_row' = Max2(Min2(cursor_row, Len(table') - 1), 0)
                /\ error' = NoError
                /\ IF cursor_row' # cursor_row
                   THEN on_data_table_row_highlighted(table', cursor_row', topics')
                   ELSE UNCHANGED <<inputs, programmatically_changed_inputs,
                                    user_changed_inputs, table_disabled, app_startup>>

TopicsDelete(answer) == TopicsDeleteHandler(answer) /\ UNCHANGED <<deleted_ids, other_vars>>

\* the same handler, with the removed id recorded in the history
TopicsDeleteRecorded(answer) ==
    /\ TopicsDeleteHandler(answer)
    /\ UNCHANGED other_vars
    /\ deleted_ids' = IF answer /\ table # <<>>
                      THEN deleted_ids \cup {get_current_id(table, cursor_row)}
                      ELSE deleted_ids

NextTopics ==
    \/ TopicsMount
    \/ \E row \in 0..(MaxTopicId - 1) : HighlightRow(row)
    \/ \E field \in Fields, value \in TextValues \cup SelectOptions \cup {BLANK} :
          UserEdit(field, value)
    \/ TopicsSave
    \/ \E answer \in BOOLEAN : TopicsDiscard(answer)
    \/ TopicsNew
    \/ \E answer \in BOOLEAN : TopicsDelete(answer)

SpecTopics == InitTopics /\ [][NextTopics]_vars

\* the topics machine with the history of removed ids kept
NextTopicIds ==
    \/ TopicsMount
    \/ \E row \in 0..(MaxTopicId - 1) : HighlightRow(row)
    \/ \E field \in Fields, value \in TextValues \cup SelectOptions \cup {BLANK} :
          UserEdit(field, value)
    \/ TopicsSave
    \/ \E answer \in BOOLEAN : TopicsDiscard(answer)
    \/ TopicsNew
    \/ \E answer \in BOOLEAN : TopicsDeleteRecorded(answer)

SpecTopicIds == InitTopics /\ [][NextTopicIds]_vars

(***************************************************************************)
(* Properties of the topics edit tracker                                  *)
(***************************************************************************)
SelectedTopicId == get_current_id(table, cursor_row)

\* the live value of field differs from the value stored for the selected topic
DiffersFromStored(widget_values, store, topic_id, field) ==
    CurrentValue(widget_values[field]) # OriginalValue(store, topic_id, field)

\* C3: a change event of a field that is not in the suppress-set (a user
\* edit, or a write of Discard) leaves the field in the dirty-set exactly
\* when its new value, a blank selection read as '', differs from the value
\* stored for the selected topic, a missing field read as ''; the membership
\* of every field without such an event is unchanged.
C3_ChangeEventDecidesDirty ==
    [][(last_topic_op' \in {"edit", "discard"} /\ error' = NoError) =>
        LET posted == IF last_topic_op' = "edit"
                      THEN {f \in Fields : inputs'[f] # inputs[f]}
                      ELSE {f \in Fields : PostsChanged(f, inputs[f], inputs'[f])}
            handled == posted \ programmatically_changed_inputs
        IN  /\ \A f \in handled :
                  (f \in user_changed_inputs')
                      <=> DiffersFromStored(inputs', topics, SelectedTopicId, f)
            /\ \A f \in Fields \ handled :
                  (f \in user_changed_inputs') <=> (f \in user_changed_inputs)
    ]_vars

\* a blank selection was made where an option is stored, and was counted
C3_Witness ==
    /\ last_topic_op = "edit" /\ error = NoError
    /\ inputs["status"] = BLANK
    /\ user_changed_inputs = {"status"}
    /\ OriginalValue(topics, SelectedTopicId, "status") = "open"

\* C4: after Save the dirty-set is empty and the tracker is Clean (the
\* table enabled), whatever was dirty before.
C4_SaveEmptiesDirtySet ==
    (last_topic_op = "save" /\ error = NoError)
        => (user_changed_inputs = {} /\ ~table_disabled)

\* C5: once an event has been handled the topics table is disabled exactly
\* when the dirty-set is non-empty.
C5_LockedIffDirty ==
    (phase = "running" /\ error = NoError)
        => (table_disabled <=> user_changed_inputs # {})

\* an edit of the selected topic is registered and not yet saved or discarded
UnsavedEdit ==
    /\ table # <<>>
    /\ \E f \in user_changed_inputs : DiffersFromStored(inputs, topics, SelectedTopicId, f)

\* C6: while an edit is registered and neither Save nor Discard has run,
\* no action changes the selected topic.
C6_SelectionLockedWhileDirty ==
    [][(UnsavedEdit /\ last_topic_op' \notin {"save", "discard"}) =>
        (table' # <<>> /\ get_current_id(table', cursor_row') = SelectedTopicId)
    ]_vars

\* C7: after the repopulation caused by a selection change (and after the
\* first population at startup) the dirty-set is empty.
C7_RepopulationLeavesDirtySetEmpty ==
    (last_topic_op \in {"highlight", "mount"} /\ error = NoError)
        => user_changed_inputs = {}

\* C8: the first user edit after a selection change that makes a field
\* differ from its stored value adds exactly that field to the dirty-set.
C8_FirstEditAfterSelectionIsCounted ==
    [][(last_topic_op \in {"highlight", "mount"} /\ last_topic_op' = "edit"
        /\ error' = NoError) =>
        \A f \in Fields :
            (inputs'[f] # inputs[f] /\ DiffersFromStored(inputs', topics, SelectedTopicId, f))
                => user_changed_inputs' = user_changed_inputs \cup {f}
    ]_vars

\* C9: once a repopulation has been handled the suppress-set is empty.
C9_SuppressSetConsumed ==
    (phase = "running" /\ error = NoError) => programmatically_changed_inputs = {}

\* C10: after a confirmed Discard every field shows the stored value, the
\* dirty-set is empty, the table is enabled and the collection is unchanged.
C10_DiscardRestoresClean ==
    [][(last_topic_op' = "discard" /\ error' = NoError) =>
        /\ \A f \in Fields : ~DiffersFromStored(inputs', topics', SelectedTopicId, f)
        /\ user_changed_inputs' = {}
        /\ ~table_disabled'
        /\ topics' = topics
    ]_vars

\* C11: once an event has been handled the dirty-set is the set of fields
\* whose live value differs from the value stored for the selected topic.
C11_DirtySetIsTheDifference ==
    (phase = "running" /\ error = NoError /\ table # <<>>)
        => user_changed_inputs =
              {f \in Fields : DiffersFromStored(inputs, topics, SelectedTopicId, f)}

(***************************************************************************)
(* Properties of the topic ids                                             *)
(***************************************************************************)
MaxOf(ids) == CHOOSE i \in ids : \A j \in ids : j <= i

TableIds(rows) == {rows[k] : k \in 1..Len(rows)}

\* C12: every create adds exactly one topic, under the id max(existing
\* ids) + 1, or 1 for an empty collection, and leaves the other topics as
\* they were; the rows of the table carry pairwise distinct ids, those of
\* the collection, after every create and delete.
C12_CreateAssignsMaxPlusOne ==
    [][(last_topic_op' \in {"new", "delete"} /\ error' = NoError) =>
        /\ last_topic_op' = "new" =>
            /\ Cardinality(DOMAIN topics') = Cardinality(DOMAIN topics) + 1
            /\ DOMAIN topics' \ DOMAIN topics =
                  {IF DOMAIN topics = {} THEN 1 ELSE MaxOf(DOMAIN topics) + 1}
            /\ \A i \in DOMAIN topics : topics'[i] = topics[i]
        /\ \A k, l \in 1..Len(table') : k # l => table'[k] # table'[l]
        /\ TableIds(table') = DOMAIN topics'
    ]_vars

\* a create into a collection that still held a topic
C12_Witness ==
    /\ last_topic_op = "new" /\ error = NoError
    /\ DOMAIN topics = {1, 2}
    /\ table = <<2, 1>>

\* C13: an id removed by a delete is never assigned again by a later create.
C13_RemovedIdNeverReassigned ==
    [][(last_topic_op' = "new" /\ error' = NoError) =>
        (DOMAIN topics' \ DOMAIN topics) \cap deleted_ids = {}
    ]_vars

(***************************************************************************)
(* Tasks.delete_task on its own: any column name, any index                *)
(***************************************************************************)
ColumnArguments == ConfigColumns \cup {"archive"}

IndexArguments == (0 - 2)..MaxTasks

\* One call Tasks.delete_task(column_name, task_index) on the loaded model.
\* selected_column_name and selected_task_index hold the arguments, as in
\* the callers delete_selected_task and move_task.
DeleteTaskCall(column_name, task_index) ==
    /\ phase = "loaded" /\ error = NoError
    /\ tasks' = delete_task(tasks, column_name, task_index)
    /\ selected_column_name' = column_name
    /\ selected_task_index' = task_index
    /\ last_task_op' = "delete_task"
    /\ UNCHANGED <<file, task_action, index_of_new_task, phase, error, topic_vars, other_vars>>

NextDeleteTask ==
    \E column_name \in ColumnArguments, task_index \in IndexArguments :
        DeleteTaskCall(column_name, task_index)

InRange(board, column_name, task_index) ==
    /\ column_name \in DOMAIN board
    /\ 0 <= task_index /\ task_index < Len(board[column_name])

\* C14: delete_task with a column name absent from the board, or with an
\* index outside 0..len-1 (negative ones included), raises nothing and
\* leaves the whole board unchanged, and so does the same call repeated;
\* with an index in range it removes exactly the task at that index.
C14_OutOfRangeDeleteIsNoOp ==
    [][last_task_op' = "delete_task" =>
        LET c == selected_column_name'
            i == selected_task_index'
        IN  IF InRange(tasks, c, i)
            THEN /\ DOMAIN tasks' = DOMAIN tasks
                 /\ tasks'[c] = RemoveAt(tasks[c], i + 1)
                 /\ \A d \in DOMAIN tasks \ {c} : tasks'[d] = tasks[d]
                 /\ error' = NoError
            ELSE /\ tasks' = tasks
                 /\ delete_task(tasks', c, i) = tasks'
                 /\ error' = NoError
    ]_vars

\* a negative index was passed for a column that holds tasks
C14_Witness ==
    /\ last_task_op = "delete_task" /\ error = NoError
    /\ selected_task_index < 0
    /\ selected_column_name \in DOMAIN tasks
    /\ Len(tasks[selected_column_name]) = 2

\* an absent column name was passed
C14_WitnessAbsentColumn ==
    /\ last_task_op = "delete_task" /\ error = NoError
    /\ selected_column_name \notin DOMAIN tasks
    /\ TotalTasks(tasks) > 0

(***************************************************************************)
(* Properties of loading and saving the board                              *)
(***************************************************************************)
\* C15: loading when tasks.json does not exist raises nothing: the file is
\* created and the board has zero columns.
C15_MissingFileLoadsEmptyBoard ==
    last_task_op = "load_created_file"
        => (error = NoError /\ file = CreatedFile /\ DOMAIN tasks = {})

(***************************************************************************)
(* Tasks.add_task_to_dict_from_raw_data on its own                         *)
(***************************************************************************)
AddSamples ==
    { RawTask("a", 1, "", ""),
      RawTask("B", 3, "1970-01-03", ""),
      RawTask("b", 2, "1970-01-02", "1970-01-01"),
      RawTask("a", 3, "1969-12-31", "not-a-date"),
      RawTask("B", 1, "1970-01-01", "") }

\* One call Tasks.add_task_to_dict_from_raw_data(column_name, task_dict) on
\* the loaded model; self.tasks[column_name] raises KeyError for a column
\* the loaded board does not hold.  selected_column_name holds the argument.
AddTaskCall(column_name, task_dict) ==
    /\ phase = "loaded" /\ error = NoError
    /\ TotalTasks(tasks) < MaxTasks
    /\ selected_column_name' = column_name
    /\ last_task_op' = "add_task"
    /\ IF column_name \in DOMAIN tasks
       THEN /\ tasks' = add_task_to_dict_from_raw_data(tasks, column_name, task_dict)
            /\ error' = NoError
       ELSE /\ tasks' = tasks
            /\ error' = "KeyError"
    /\ UNCHANGED <<file, selected_task_index, task_action, index_of_new_task,
                   phase, topic_vars, other_vars>>

NextAddTask ==
    \E column_name \in ColumnArguments, task_dict \in AddSamples :
        AddTaskCall(column_name, task_dict)

\* One call Tasks.save_to_file(): sort_tasks sorts the board in place, then
\* the cleaned board is written.
SaveToFileCall ==
    /\ phase = "loaded" /\ error = NoError
    /\ tasks' = sort_tasks(tasks)
    /\ file' = save_to_file(tasks)
    /\ last_task_op' = "save_to_file"
    /\ UNCHANGED <<selected_column_name, selected_task_index, task_action,
                   index_of_new_task, phase, error, topic_vars, other_vars>>

\* One call Tasks.load_from_file() on the existing file: generate_tasks_dict
\* replaces the columns the file lists and keeps the others, then sorts all.
LoadFromFileCall ==
    /\ phase = "loaded" /\ error = NoError
    /\ tasks' = LET loaded == generate_tasks_dict(file)
                IN  sort_tasks([c \in DOMAIN tasks \cup DOMAIN file |->
                        IF c \in DOMAIN file THEN loaded[c] ELSE tasks[c]])
    /\ last_task_op' = "load_from_file"
    /\ UNCHANGED <<file, selected_column_name, selected_task_index, task_action,
                   index_of_new_task, phase, error, topic_vars, other_vars>>

\* the Tasks model under any sequence of direct calls
NextTasksModel == NextDeleteTask \/ NextAddTask

SpecTasksModel == Init /\ [][NextTasksModel]_vars

\* the Tasks model under adds, saves and loads
NextSaveLoad ==
    \/ NextAddTask
    \/ SaveToFileCall
    \/ LoadFromFileCall

SpecSaveLoad == Init /\ [][NextSaveLoad]_vars

\* C16: adding a task to a column name that is no configured column fails
\* with an error and leaves the board unchanged; adding to a configured
\* column succeeds and the column gains the task.
C16_AddValidatesColumn ==
    [][last_task_op' = "add_task" =>
        LET c == selected_column_name'
        IN  IF c \in ConfigColumns
            THEN /\ error' = NoError
                 /\ c \in DOMAIN tasks'
                 /\ TotalTasks(tasks') = TotalTasks(tasks) + 1
            ELSE /\ error' # NoError
                 /\ tasks' = tasks
    ]_vars

PersistedFields == {"description", "priority", "start_date", "end_date"}

\* C17: a load that follows a save yields the columns that were saved and,
\* in each column, the same sequence of tasks by description, priority,
\* start_date and end_date; every saved record has exactly those four
\* fields (no days_to_start, no days_to_end).
C17_SaveLoadRoundTrip ==
    [][(last_task_op = "save_to_file" /\ last_task_op' = "load_from_file") =>
        /\ error' = NoError
        /\ DOMAIN tasks' = DOMAIN tasks
        /\ \A c \in DOMAIN tasks :
              /\ Len(tasks'[c]) = Len(tasks[c])
              /\ \A i \in 1..Len(tasks[c]) :
                    /\ \A f \in PersistedFields : tasks'[c][i][f] = tasks[c][i][f]
                    /\ DOMAIN file[c][i] = PersistedFields
    ]_vars

\* a board of two tasks of different priorities in one column was saved
\* and loaded again
C17_Witness ==
    /\ last_task_op = "load_from_file" /\ error = NoError
    /\ file = get_cleaned_tasks_dict(tasks)
    /\ \E c \in DOMAIN tasks :
          /\ Len(tasks[c]) = 2
          /\ tasks[c][1].priority # tasks[c][2].priority

(***************************************************************************)
(* The file as a mirror of the board                                       *)
(***************************************************************************)
\* written holds board reduced to the persisted fields, column by column
\* and position by position
MirrorsBoard(written, board) ==
    /\ DOMAIN written = DOMAIN board
    /\ \A c \in DOMAIN board :
          /\ Len(written[c]) = Len(board[c])
          /\ \A i \in 1..Len(board[c]) :
                /\ DOMAIN written[c][i] = PersistedFields
                /\ \A f \in PersistedFields : written[c][i][f] = board[c][i][f]

\* C18: a task operation (save_task, move_task, delete_selected_task) that
\* changed the in-memory board leaves the file holding exactly that board
\* reduced to its persisted fields, every column in its current order; so
\* a step that did not write the file did not change the board.
C18_FileMirrorsBoard ==
    [][(last_task_op' \in MutatingTaskOps /\ tasks' # tasks) =>
            MirrorsBoard(file', tasks')
    ]_vars

\* an edit has re-sorted a column of two tasks and completed
C18_Witness ==
    /\ last_task_op = "edit" /\ error = NoError
    /\ "inbox" \in DOMAIN tasks /\ Len(tasks["inbox"]) = 2
    /\ tasks["inbox"][1].priority = tasks["inbox"][2].priority
    /\ tasks["inbox"][1].start_date # tasks["inbox"][2].start_date
    /\ index_of_new_task = 0
    /\ MirrorsBoard(file, tasks)

(***************************************************************************)
(* The confirmation prompts.  check_action enables the task bindings on    *)
(* the tasks tab and the topic bindings on the topics tab: a session works *)
(* on one of the two while the other is at rest.                           *)
(***************************************************************************)
InitPrompts == Init \/ InitTopics

\* the topic bindings on the topics that exist: select, edit, Save, Discard, Delete
NextTopicsPrompts ==
    \/ TopicsMount
    \/ \E row \in 0..(MaxTopicId - 1) : HighlightRow(row)
    \/ \E field \in Fields, value \in TextValues \cup SelectOptions \cup {BLANK} : UserEdit(field, value)
    \/ TopicsSave
    \/ \E answer \in BOOLEAN : TopicsDiscard(answer)
    \/ \E answer \in BOOLEAN : TopicsDelete(answer)

NextPrompts ==
    \/ TopicsIdle /\ Next
    \/ ~TopicsIdle /\ NextTopicsPrompts

SpecPrompts == InitPrompts /\ [][NextPrompts]_vars

\* the board, the file, the topic collection, the table, the field values
\* and the two sets of field names
Guarded == <<tasks, file, topics, table, cursor_row, inputs, programmatically_changed_inputs, user_changed_inputs, table_disabled>>

\* C19: a step in which the prompt returned No leaves the task board, the
\* file, the topic collection, the field values and the dirty-set as they
\* were; a task or a topic leaves its collection, and the fields are reset
\* by Discard, only in a step in which the prompt returned Yes.
C19_DestructiveOnlyAfterYes ==
    [][/\ (last_task_op' = "delete_canceled" \/ last_topic_op' \in {"delete_canceled", "discard_canceled"})
            => (UNCHANGED Guarded /\ error' = NoError)
       /\ (error = NoError /\ TotalTasks(tasks') < TotalTasks(tasks))
            => last_task_op' = "delete"
       /\ (DOMAIN topics' # DOMAIN topics /\ ~(DOMAIN topics \subseteq DOMAIN topics'))
            => last_topic_op' = "delete"
    ]_vars

\* No was answered to Discard while a field was dirty and the table locked
C19_Witness ==
    /\ last_topic_op = "discard_canceled" /\ error = NoError
    /\ user_changed_inputs # {} /\ table_disabled
    /\ \E f \in Fields : DiffersFromStored(inputs, topics, SelectedTopicId, f)

\* No was answered to Delete with a task selected
C19_WitnessTask ==
    /\ last_task_op = "delete_canceled" /\ error = NoError
    /\ selected_column_name \in DOMAIN tasks
    /\ selected_task_index < Len(tasks[selected_column_name])

\* No was answered to Delete with a topic under the cursor
C19_WitnessTopic ==
    /\ last_topic_op = "delete_canceled" /\ error = NoError
    /\ table # <<>> /\ SelectedTopicId \in DOMAIN topics

(***************************************************************************)
(* Properties of Tasks.days_to                                             *)
(***************************************************************************)
\* the signed number of days from today to a valid date
SignedDays(date_str) == DayNumber(date_str) - today_timestamp

\* days is what the claim states for date_str
DaysToAsStated(date_str, days) ==
    IF date_str \in ValidDates THEN days = SignedDays(date_str) ELSE days = None

\* C20: days_to is the signed number of days (date minus today) for every
\* valid YYYY-MM-DD date, the date of timestamp 0 included: 0 for today,
\* 1 for tomorrow, negative for past dates; None only for an empty or
\* unparseable string.  Stated of the days_to_start and days_to_end that
\* the task objects on the board carry.
C20_DaysToSignedDays ==
    \A c \in DOMAIN tasks : \A i \in 1..Len(tasks[c]) :
        /\ DaysToAsStated(tasks[c][i].start_date, tasks[c][i].days_to_start)
        /\ DaysToAsStated(tasks[c][i].end_date, tasks[c][i].days_to_end)

\* a task whose start date has timestamp 0 is on the board
C20_Witness ==
    \E c \in DOMAIN tasks : \E i \in 1..Len(tasks[c]) :
        tasks[c][i].start_date = "1970-01-01"

(***************************************************************************)
(* Properties of Tasks.sort_tasks                                          *)
(***************************************************************************)
\* C21: sort_tasks is idempotent, and in its result every adjacent pair of
\* tasks of a column is non-decreasing in the key tuple (priority value,
\* start timestamp, end timestamp, lower-cased description).  Stated of
\* the board that a save_to_file call, which sorts in place, leaves.
C21_SortIdempotentAndOrdered ==
    [][last_task_op' = "save_to_file" =>
        /\ tasks' = sort_tasks(tasks)
        /\ sort_tasks(tasks') = tasks'
        /\ \A c \in DOMAIN tasks' : SortedByOrderingKey(tasks'[c])
    ]_vars

\* a sort has reordered a column of two tasks
C21_Witness ==
    /\ last_task_op = "save_to_file" /\ error = NoError
    /\ \E c \in DOMAIN tasks :
          /\ Len(tasks[c]) = 2
          /\ tasks[c][1].priority = tasks[c][2].priority
          /\ tasks[c][1].start_date # tasks[c][2].start_date

\* the date is unset (or unparseable): no valid calendar date
Undated(date_str) == date_str \notin ValidDates

\* in tasks_list, a task with an unset start date stands behind every task
\* of its priority with a valid start date, and among equal start dates a
\* task with an unset end date behind every one with a valid end date
UndatedLast(tasks_list) ==
    \A i \in 1..Len(tasks_list) : \A j \in 1..Len(tasks_list) :
        LET t == tasks_list[i]
            u == tasks_list[j]
        IN  t.priority = u.priority =>
              /\ (Undated(t.start_date) /\ ~Undated(u.start_date)) => j < i
              /\ (t.start_date = u.start_date /\ Undated(t.end_date) /\ ~Undated(u.end_date))
                     => j < i

\* C22: within one priority band a task whose start date is unset sorts
\* after every task whose start date is a valid date, and among tasks with
\* equal start date a task whose end date is unset sorts after every task
\* with a valid end date, for every valid date value.  Stated of the board
\* after each sort_tasks (load, save_to_file, load_from_file).
C22_UndatedSortLast ==
    (error = NoError /\ last_task_op \in {"load", "save_to_file", "load_from_file"})
        => \A c \in DOMAIN tasks : UndatedLast(tasks[c])

\* a sort has placed an undated task and a dated task of one priority
C22_Witness ==
    /\ last_task_op = "save_to_file" /\ error = NoError
    /\ \E c \in DOMAIN tasks :
          /\ Len(tasks[c]) = 2
          /\ tasks[c][1].priority = tasks[c][2].priority
          /\ \E i \in 1..2 : Undated(tasks[c][i].start_date)
          /\ \E i \in 1..2 : ~Undated(tasks[c][i].start_date)

\* C23: add_task_to_dict_from_raw_data appends the new task to the named
\* column and leaves that column sorted by the full ordering key
\* (priority, start date, end date, description) when it returns, before
\* any later save.
C23_AddLeavesColumnSorted ==
    [][(last_task_op' = "add_task" /\ error' = NoError) =>
        LET c == selected_column_name'
        IN  /\ Len(tasks'[c]) = Len(tasks[c]) + 1
            /\ \A d \in DOMAIN tasks \ {c} : tasks'[d] = tasks[d]
            /\ SortedByOrderingKey(tasks'[c])
    ]_vars

\* a task was added to a column that held a task of the same priority
C23_Witness ==
    /\ last_task_op = "add_task" /\ error = NoError
    /\ selected_column_name \in DOMAIN tasks
    /\ Len(tasks[selected_column_name]) = 2
    /\ tasks[selected_column_name][1].priority = tasks[selected_column_name][2].priority

(***************************************************************************)
(* Properties of TasksController.move_task                                 *)
(***************************************************************************)
\* the move asked for by the step has its target equal to its source
MoveAtEdge ==
    \/ last_task_op' = "move_left" /\ selected_column_name = task_column_names[1]
    \/ last_task_op' = "move_right"
          /\ selected_column_name = task_column_names[Len(task_column_names)]

\* the source column of the move is an empty list
MoveFromEmpty ==
    /\ selected_column_name \in DOMAIN tasks
    /\ tasks[selected_column_name] = <<>>

StoredPriorities == {0 - 1, 0, 1, 2, 3, 7}

PriorityNames == {"High", "high", "HIGH", "Medium", "medium", "MEDIUM", "Low", "low", "LOW", "urgent", ""}

PriorityMessages == {Message("a", name, "", "") : name \in PriorityNames}

\* tasks.json holds one task with a stored priority number
InitPriority ==
    /\ \E n \in StoredPriorities :
          file = [EmptyColumns EXCEPT !["inbox"] = <<RawTask("a", n, "", "")>>]
    /\ tasks = generate_tasks_dict(file)
    /\ last_task_op = "load"
    /\ error = NoError
    /\ selected_column_name = Unset
    /\ selected_task_index = 0
    /\ task_action = Unset
    /\ index_of_new_task = -1
    /\ phase = "loaded"
    /\ TopicsIdle
    /\ OthersIdle

NextPriority ==
    \/ Compose
    \/ \E c \in ConfigColumns, i \in 0..MaxTasks : SelectTask(c, i)
    \/ \E message \in PriorityMessages : NewTask(message)
    \/ \E message \in PriorityMessages : EditTask(message)
    \/ \E answer \in BOOLEAN : DeleteSelectedTask(answer)

SpecPriority == InitPriority /\ [][NextPriority]_vars

\* the priority the claim states for a stored number
PriorityOfStored(n) == IF n = 1 THEN HIGH ELSE IF n = 2 THEN MEDIUM ELSE LOW

\* the priority the claim states for a name typed in any letter case
PriorityOfName(name) ==
    IF name \in {"High", "high", "HIGH"} THEN HIGH
    ELSE IF name \in {"Medium", "medium", "MEDIUM"} THEN MEDIUM
    ELSE LOW

\* number of tasks of priority p in tasks_list
CountPriority(tasks_list, p) == Cardinality({i \in 1..Len(tasks_list) : tasks_list[i].priority = p})

\* C25: a stored 1 loads as HIGH, 2 as MEDIUM and any other integer as LOW;
\* num_to_priority(p.value) = p for every TaskPriority p; and for the names
\* High, Medium and Low in any letter case
\* num_to_priority(priority_str_to_num(name)) is the priority of that name,
\* any other string giving LOW.
C25_PriorityConversion ==
    [][/\ last_task_op = "load" =>
              tasks["inbox"][1].priority = PriorityOfStored(file["inbox"][1].priority)
       /\ \A p \in {HIGH, MEDIUM, LOW} : num_to_priority(p) = p
       /\ \A message \in PriorityMessages : (NewTask(message) /\ error' = NoError) =>
              LET p == PriorityOfName(message.priority)
              IN  /\ CountPriority(tasks'["inbox"], p) = CountPriority(tasks["inbox"], p) + 1
                  /\ Len(tasks'["inbox"]) = Len(tasks["inbox"]) + 1
    ]_vars

\* a task typed with a name of MEDIUM was saved in front of a LOW task
C25_Witness ==
    /\ last_task_op = "new" /\ error = NoError
    /\ Len(tasks["inbox"]) = 2
    /\ file["inbox"][2].priority = LOW
    /\ tasks["inbox"][1].priority = MEDIUM
    /\ tasks["inbox"][2].priority = LOW

(***************************************************************************)
(* Properties of creating and saving a topic                               *)
(***************************************************************************)
\* C26: a newly created topic has every Config-declared field set to the
\* empty string, and the collection differs from the one before only by
\* the added topic: no existing topic's id or field value changes.
C26_NewTopicIsBlankAndAdded ==
    [][last_topic_op' = "new" =>
        /\ Cardinality(DOMAIN topics' \ DOMAIN topics) = 1
        /\ \A i \in DOMAIN topics' \ DOMAIN topics :
              /\ DOMAIN topics'[i] = Fields
              /\ \A f \in Fields : topics'[i][f] = ""
        /\ \A i \in DOMAIN topics : i \in DOMAIN topics' /\ topics'[i] = topics[i]
    ]_vars

\* a blank topic was created beside a topic that has a title
C26_Witness ==
    /\ last_topic_op = "new" /\ error = NoError
    /\ \E i \in DOMAIN topics : \A f \in Fields : topics[i][f] = ""
    /\ \E j \in DOMAIN topics : topics[j]["title"] = "x"

(***************************************************************************)
(* Properties of TasksController.save_task                                 *)
(***************************************************************************)
\* C27: save_task with action NEW adds the submitted task to the first
\* configured column and changes no other column, for every board state,
\* the one where the first configured column has no entry in the loaded
\* task data included.
C27_NewGoesToFirstColumn ==
    [][last_task_op' = "new" =>
        LET first == task_column_names[1]
        IN  /\ first \in DOMAIN tasks'
            /\ Len(tasks'[first]) = ColumnLen(tasks, first) + 1
            /\ \A c \in DOMAIN tasks \ {first} : c \in DOMAIN tasks' /\ tasks'[c] = tasks[c]
    ]_vars

\* a task was added to the first column while another column held a task
C27_Witness ==
    /\ last_task_op = "new" /\ error = NoError
    /\ "inbox" \in DOMAIN tasks /\ Len(tasks["inbox"]) = 1
    /\ "doing" \in DOMAIN tasks /\ Len(tasks["doing"]) = 1

(***************************************************************************)
(* The edit form in two steps: action_tasks_edit shows the form filled     *)
(* from the selected task, the form's Submit reaches save_task later.  The *)
(* list views take no focus while the form is shown; the bindings of the   *)
(* tab stay enabled.                                                       *)
(***************************************************************************)
\* action_tasks_edit: show_task_form(EDIT), set_task_form_input_values
ShowEditForm ==
    /\ phase = "running" /\ error = NoError
    /\ task_action' = TaskAction_EDIT
    /\ last_task_op' = "show_form"
    /\ UNCHANGED <<tasks, file, selected_column_name, selected_task_index,
                   index_of_new_task, topic_vars, other_vars>>
    /\ IF selected_column_name = Unset
       THEN error' = "AttributeError" /\ UNCHANGED phase
       ELSE IF selected_column_name \notin DOMAIN tasks
       THEN error' = "KeyError" /\ UNCHANGED phase
       ELSE IF selected_task_index >= Len(tasks[selected_column_name])
       THEN error' = "IndexError" /\ UNCHANGED phase
       ELSE error' = NoError /\ phase' = "form"

\* the form's Submit: save_task with task_action EDIT
SubmitEditForm(message) ==
    /\ phase = "form" /\ error = NoError
    /\ phase' = "running"
    /\ SaveTaskInto(selected_column_name,
                    delete_task(tasks, selected_column_name, selected_task_index),
                    message)
    /\ last_task_op' = "edit_submit"
    /\ UNCHANGED <<selected_column_name, selected_task_index, task_action, topic_vars, other_vars>>

NextEditForm ==
    \/ Compose
    \/ \E c \in ConfigColumns, i \in 0..MaxTasks : SelectTask(c, i)
    \/ ShowEditForm
    \/ \E message \in Messages : SubmitEditForm(message)
    \/ \E answer \in BOOLEAN : DeleteSelectedTask(answer)

SpecEditForm == Init /\ [][NextEditForm]_vars

\* C28: save_task with action EDIT replaces the task at the selected index
\* by the submitted one: the total number of tasks on the board is
\* unchanged, the edited task stays in the column it was in, and every
\* other task is unchanged, for every value the selected index can hold.
C28_EditReplacesInPlace ==
    [][last_task_op' = "edit_submit" =>
        LET c == selected_column_name
            i == selected_task_index
        IN  /\ TotalTasks(tasks') = TotalTasks(tasks)
            /\ Len(tasks'[c]) = Len(tasks[c])
            /\ \A d \in DOMAIN tasks \ {c} : tasks'[d] = tasks[d]
            /\ i < Len(tasks[c])
            /\ \E k \in 1..Len(tasks'[c]) :
                  RemoveAt(tasks'[c], k) = SortList("full", RemoveAt(tasks[c], i + 1))
    ]_vars

\* an edit was submitted for one of two tasks of a column
C28_Witness ==
    /\ last_task_op = "edit_submit" /\ error = NoError
    /\ Len(tasks[selected_column_name]) = 2
    /\ selected_task_index = 1

\* the selected index is no position of the non-empty selected column
StaleIndex ==
    /\ selected_column_name \in DOMAIN tasks
    /\ tasks[selected_column_name] # <<>>
    /\ selected_task_index >= Len(tasks[selected_column_name])

\* C29: move_task invoked with a selected index that is not a valid
\* position of the non-empty source column (a stale index left after the
\* last task of the column was deleted) raises no error and leaves the
\* board and the task file unchanged.
C29_MoveWithStaleIndexIsNoOp ==
    [][(last_task_op' \in {"move_left", "move_right"} /\ StaleIndex) =>
        /\ error' = NoError
        /\ tasks' = tasks
        /\ file' = file
    ]_vars

\* a move was asked for with a stale index
C29_Witness ==
    /\ last_task_op \in {"move_left", "move_right"}
    /\ StaleIndex

\* C30: after save_topic for the selected topic the stored value of every
\* Config-declared field equals the live value of its input (a blank
\* selection stored as the empty string), the topic's id is unchanged, and
\* every other topic is unchanged.
C30_SaveStoresLiveValues ==
    [][(last_topic_op' = "save" /\ error' = NoError) =>
        LET topic_id == get_current_id(table, cursor_row)
        IN  /\ DOMAIN topics' = DOMAIN topics
            /\ get_current_id(table', cursor_row') = topic_id
            /\ \A f \in Fields :
                  topics'[topic_id][f] = (IF inputs'[f] = BLANK THEN "" ELSE inputs'[f])
            /\ \A j \in DOMAIN topics \ {topic_id} : topics'[j] = topics[j]
    ]_vars

\* a topic was saved with a blank selection and a text in the notes, beside
\* another topic
C30_Witness ==
    /\ last_topic_op = "save" /\ error = NoError
    /\ Cardinality(DOMAIN topics) = 2
    /\ inputs["status"] = BLANK /\ inputs["notes"] = "x"
    /\ topics[SelectedTopicId]["status"] = ""
    /\ topics[SelectedTopicId]["notes"] = "x"

(***************************************************************************)
(* Properties of the New-topic action                                      *)
(***************************************************************************)
\* C31: New creates a topic exactly when the dirty-set is empty; while it
\* is non-empty the topic collection and the table are unchanged; and once
\* the user has saved or discarded their edits, New succeeds again.
C31_NewExactlyWhenClean ==
    [][last_topic_op' \in {"new", "new_refused"} =>
        /\ (user_changed_inputs = {}) <=> (last_topic_op' = "new")
        /\ last_topic_op' = "new" => DOMAIN topics' # DOMAIN topics
        /\ last_topic_op' = "new_refused" => (topics' = topics /\ table' = table)
        /\ last_topic_op \in {"save", "discard"} => last_topic_op' = "new"
    ]_vars

\* New was refused while a field was dirty
C31_Witness ==
    /\ last_topic_op = "new_refused" /\ error = NoError
    /\ user_changed_inputs # {} /\ table # <<>>
    /\ \E f \in Fields : DiffersFromStored(inputs, topics, SelectedTopicId, f)

(***************************************************************************)
(* Properties of TasksController.store_index_of_new_task                   *)
(***************************************************************************)
\* C32: after save_task has added a task, index_of_new_task is the
\* position of the added task in its column's sorted list, for every
\* position, the last one included; it is -1 only when no task was added.
C32_IndexOfNewTaskIsItsPosition ==
    [][(last_task_op' = "new" /\ error' = NoError) =>
        LET c == task_column_names[1]
            k == index_of_new_task'
        IN  /\ 0 <= k /\ k < Len(tasks'[c])
            /\ RemoveAt(tasks'[c], k + 1) = SortList("full", tasks[c])
    ]_vars

\* a task was added in front of another task of its column
C32_Witness ==
    /\ last_task_op = "new" /\ error = NoError
    /\ Len(tasks["inbox"]) = 2
    /\ index_of_new_task = 0

(***************************************************************************)
(* Properties of the derived day offsets and of the start date's style     *)
(***************************************************************************)
\* TasksTab.start_date_text_and_style: the style it returns, or the error
\* it raises when a day offset that is None is compared with 0
start_date_style(task) ==
    IF task.start_date = "" THEN ""
    ELSE IF start_date_text_and_style_raises(task) THEN "TypeError"
    ELSE IF task.days_to_start > 0 THEN "green"
    ELSE IF task.days_to_start < 0 /\ task.days_to_end < 0 THEN "red"
    ELSE "yellow"

\* the style as the three rules name it, an unset end date never being past
StyleAsStated(task) ==
    IF task.days_to_start # None /\ task.days_to_start > 0 THEN "green"
    ELSE IF /\ task.days_to_start # None /\ task.days_to_start < 0
            /\ task.days_to_end # None /\ task.days_to_end < 0 THEN "red"
    ELSE "yellow"

TasksOnBoard == UNION { { tasks[c][i] : i \in 1..Len(tasks[c]) } : c \in DOMAIN tasks }

\* C33: for every task on the board days_to_start is None exactly when
\* start_date is unset and days_to_end is None exactly when end_date is
\* unset, and for every task whose start date is set
\* start_date_text_and_style returns without error: green when
\* days_to_start > 0, red when days_to_start < 0 and days_to_end < 0,
\* yellow otherwise, tasks whose end date is unset included.
C33_DayOffsetsAndStartStyle ==
    \A task \in TasksOnBoard :
        /\ (task.days_to_start = None) <=> (task.start_date = "")
        /\ (task.days_to_end = None) <=> (task.end_date = "")
        /\ task.start_date # "" => start_date_style(task) = StyleAsStated(task)

\* a task with a future start date and no end date was added and rendered
C33_Witness ==
    /\ last_task_op = "new" /\ error = NoError
    /\ \E task \in TasksOnBoard :
          /\ task.start_date # "" /\ task.end_date = ""
          /\ start_date_style(task) = "green"

(***************************************************************************)
(* The notes controller.  NotesTab.update_markdown starts one thread per   *)
(* TextArea.Changed; each runs NotesController.text_area_changed_action.   *)
(* The threads interleave statement by statement; the block under          *)
(* throttle_lock is one step.  Reading the clock and storing latest_text   *)
(* are the step with which a call begins.                                  *)
(***************************************************************************)
MaxTime == 2 * throttle_interval + 1

\* what the notes controller never touches
outside_notes == <<task_vars, topic_vars, screen_vars, theme_vars, error>>

\* a timer that was started and whose Event is not set: it will run
Pending(t) == timers[t].started /\ ~timers[t].finished

\* now = time.time(); self.latest_text = text
Begin(c) ==
    /\ pc[c] = "unborn"
    /\ \A d \in Earlier(c) : pc[d] # "unborn"
    /\ now' = [now EXCEPT ![c] = clock]
    /\ latest_text' = c
    /\ runs_since_change' = 0
    /\ pc' = [pc EXCEPT ![c] = "throttle"]
    /\ UNCHANGED <<outside_notes, clock, last_throttle_call, debounce_timer, timers, throttle_starts>>

\* with self.throttle_lock: the interval test on the caller's own now
Throttle(c) ==
    /\ pc[c] = "throttle"
    /\ IF now[c] - last_throttle_call >= throttle_interval
       THEN /\ last_throttle_call' = now[c]
            /\ throttle_starts' = throttle_starts \cup {c}
       ELSE UNCHANGED <<last_throttle_call, throttle_starts>>
    /\ pc' = [pc EXCEPT ![c] = "test"]
    /\ UNCHANGED <<outside_notes, clock, now, latest_text, debounce_timer, timers, runs_since_change>>

\* if self.debounce_timer:
TestTimer(c) ==
    /\ pc[c] = "test"
    /\ pc' = [pc EXCEPT ![c] = IF debounce_timer # NoTimer THEN "cancel" ELSE "create"]
    /\ UNCHANGED <<outside_notes, clock, now, last_throttle_call, latest_text, debounce_timer,
                   timers, throttle_starts, runs_since_change>>

\* self.debounce_timer.cancel(): the attribute is read again
Cancel(c) ==
    /\ pc[c] = "cancel"
    /\ timers' = [timers EXCEPT ![debounce_timer].finished = TRUE]
    /\ pc' = [pc EXCEPT ![c] = "create"]
    /\ UNCHANGED <<outside_notes, clock, now, last_throttle_call, latest_text, debounce_timer,
                   throttle_starts, runs_since_change>>

\* self.debounce_timer = threading.Timer(...)
Create(c) ==
    /\ pc[c] = "create"
    /\ timers' = [timers EXCEPT ![c] = [NewTimer EXCEPT !.created = TRUE]]
    /\ debounce_timer' = c
    /\ pc' = [pc EXCEPT ![c] = "start"]
    /\ UNCHANGED <<outside_notes, clock, now, last_throttle_call, latest_text, throttle_starts,
                   runs_since_change>>

\* self.debounce_timer.start(): the attribute is read again; a thread that
\* was started before raises RuntimeError in the calling thread
Start(c) ==
    /\ pc[c] = "start"
    /\ IF timers[debounce_timer].started
       THEN /\ pc' = [pc EXCEPT ![c] = "RuntimeError"]
            /\ UNCHANGED timers
       ELSE /\ pc' = [pc EXCEPT ![c] = "done"]
            /\ timers' = [timers EXCEPT ![debounce_timer].started = TRUE,
                                        ![debounce_timer].deadline = clock + debounce_interval]
    /\ UNCHANGED <<outside_notes, clock, now, last_throttle_call, latest_text, debounce_timer,
                   throttle_starts, runs_since_change>>

\* Timer.run after its wait: _debounce_action, unless the timer was cancelled
_debounce_action(t) ==
    /\ Pending(t)
    /\ clock >= timers[t].deadline
    /\ timers' = [timers EXCEPT ![t].ran = TRUE, ![t].finished = TRUE]
    /\ runs_since_change' = runs_since_change + 1
    /\ UNCHANGED <<outside_notes, clock, pc, now, last_throttle_call, latest_text, debounce_timer,
                   throttle_starts>>

\* a second passes; a timer that is due runs first
Tick ==
    /\ clock < MaxTime
    /\ \A t \in Calls : Pending(t) => timers[t].deadline > clock
    /\ clock' = clock + 1
    /\ UNCHANGED <<outside_notes, pc, now, last_throttle_call, latest_text, debounce_timer, timers,
                   throttle_starts, runs_since_change>>

InitIdle ==
    /\ TasksIdle
    /\ TopicsIdle
    /\ OthersIdle
    /\ phase = "loaded"
    /\ error = NoError

NextNotes ==
    \/ \E c \in Calls : Begin(c)
    \/ \E c \in Calls : Throttle(c)
    \/ \E c \in Calls : TestTimer(c)
    \/ \E c \in Calls : Cancel(c)
    \/ \E c \in Calls : Create(c)
    \/ \E c \in Calls : Start(c)
    \/ \E t \in Calls : _debounce_action(t)
    \/ Tick

SpecNotes == InitIdle /\ [][NextNotes]_vars

(***************************************************************************)
(* Properties of the debounce and the throttle                             *)
(***************************************************************************)
Begun == {c \in Calls : pc[c] # "unborn"}

\* every call has returned and the last text change is debounce_interval old
Quiet ==
    /\ Begun # {}
    /\ \A c \in Begun : pc[c] \in {"done", "RuntimeError"} /\ clock >= now[c] + debounce_interval
    /\ \A t \in Calls : ~Pending(t)

\* C34: under any interleaving of concurrent text_area_changed_action
\* calls at most one debounce timer is pending at any time, and a burst of
\* text changes followed by debounce_interval of inactivity makes
\* _debounce_action run exactly once.
C34_DebounceRunsOnce ==
    /\ Cardinality({t \in Calls : Pending(t)}) <= 1
    /\ Quiet => runs_since_change = 1

\* two calls overlapped and the debounce has run after the quiet interval
C34_Witness ==
    /\ Quiet
    /\ Cardinality(Begun) >= 2
    /\ runs_since_change = 1
    /\ \E t \in Calls : timers[t].created /\ timers[t].finished /\ ~timers[t].ran

\* c is the first call after a pause: some call has a timestamp at least
\* throttle_interval earlier, and every other call that has begun has such
\* a timestamp or a later one than c
FirstAfterPause(c) ==
    /\ \E d \in Begun : now[d] + throttle_interval <= now[c]
    /\ \A d \in Begun \ {c} : now[d] + throttle_interval <= now[c] \/ now[d] > now[c]

\* C35: under any interleaving of concurrent text_area_changed_action
\* calls, any two calls that both start _throttle_action have timestamps
\* at least throttle_interval apart, and the first call after a pause of
\* at least throttle_interval always starts it.
C35_ThrottleOncePerInterval ==
    /\ \A c, d \in throttle_starts :
          c # d => (now[c] - now[d] >= throttle_interval \/ now[d] - now[c] >= throttle_interval)
    /\ \A c \in Begun :
          (pc[c] # "throttle" /\ FirstAfterPause(c)) => c \in throttle_starts

\* two calls a full interval apart both started _throttle_action
C35_Witness ==
    /\ Cardinality(throttle_starts) = 2
    /\ \A c \in Begun : pc[c] # "throttle"

(***************************************************************************)
(* The task edit screen (TaskEditScreen).  invalid_inputs is an attribute  *)
(* of the class: on_input_changed changes the one set object in place, and *)
(* every screen that is constructed reads the same object.                 *)
(***************************************************************************)
PartialDate == "1970-01-2"     \* a date typed up to the last digit but one
InvalidDate == "1970-02-30"    \* ten characters of the mask, no calendar date

\* what the user types into a date input (mask 9999-99-99)
TypedDates == {"", PartialDate, InvalidDate, "1970-01-01", "1970-01-03"}

ScreenDescriptions == {"", "a"}

ScreenPriorities == {BLANK, "High"}

DateInputIds == {"start_date", "end_date"}

\* datetime.strptime(value, "%Y-%m-%d"), in days; None for ValueError.
\* %d accepts a day of one digit.
strptime(value) ==
    CASE value \in ValidDates -> DayNumber(value)
      [] value = PartialDate -> DayNumber("1970-01-02")
      [] OTHER -> None

\* strftime("%Y-%m-%d")
strftime(day) == CHOOSE date_str \in ValidDates : DayNumber(date_str) = day

DayInRange(day) == \E date_str \in ValidDates : DayNumber(date_str) = day

\* re.fullmatch(r"\d{4}-\d{2}-\d{2}") and strptime
is_valid_date(date_str) == date_str \in ValidDates

INCREASE == 1
DECREASE == -1

\* the value adjust_date writes into the input widget
AdjustedValue(value, delta_factor) ==
    IF value # ""
    THEN IF strptime(value) # None THEN strftime(strptime(value) + delta_factor) ELSE value
    ELSE strftime(today_timestamp)

\* the dates the model can name
AdjustInRange(value, delta_factor) ==
    (value # "" /\ strptime(value) # None) => DayInRange(strptime(value) + delta_factor)

\* invalid_inputs after on_input_changed for the input with this id
on_input_changed(id, value, invalid) ==
    IF is_valid_date(value) \/ value = "" THEN invalid \ {id} ELSE invalid \cup {id}

DateValue(id) == IF id = "start_date" THEN start_date_input ELSE end_date_input

outside_screen == <<task_vars, topic_vars, notes_vars, theme_vars, error>>

\* TaskEditScreen(...) is constructed and pushed: new, empty widgets
PushScreen ==
    /\ ~screen_open
    /\ screen_open' = TRUE
    /\ description_input' = ""
    /\ priority_input' = BLANK
    /\ start_date_input' = ""
    /\ end_date_input' = ""
    /\ posted_message' = NoMessage
    /\ last_screen_op' = "push"
    /\ UNCHANGED <<outside_screen, invalid_inputs>>

\* the value of a date input becomes new_value; a change posts
\* Input.Changed, handled by on_input_changed
SetDateValue(id, new_value) ==
    /\ start_date_input' = IF id = "start_date" THEN new_value ELSE start_date_input
    /\ end_date_input' = IF id = "end_date" THEN new_value ELSE end_date_input
    /\ invalid_inputs' = IF new_value # DateValue(id)
                         THEN on_input_changed(id, new_value, invalid_inputs)
                         ELSE invalid_inputs

\* the user edits a date input
TypeDate(id, value) ==
    /\ screen_open
    /\ value # DateValue(id)
    /\ SetDateValue(id, value)
    /\ last_screen_op' = "type"
    /\ UNCHANGED <<outside_screen, screen_open, description_input, priority_input, posted_message>>

\* the user edits the description or selects a priority
TypeOther(description, priority) ==
    /\ screen_open
    /\ <<description, priority>> # <<description_input, priority_input>>
    /\ description_input' = description
    /\ priority_input' = priority
    /\ last_screen_op' = "type"
    /\ UNCHANGED <<outside_screen, screen_open, start_date_input, end_date_input,
                   invalid_inputs, posted_message>>

AdjustOp(id, delta_factor) ==
    (IF delta_factor = INCREASE THEN "increase_" ELSE "decrease_") \o id

\* action_decrease_start_date .. action_increase_end_date: adjust_date
adjust_date(id, delta_factor) ==
    /\ screen_open
    /\ AdjustInRange(DateValue(id), delta_factor)
    /\ SetDateValue(id, AdjustedValue(DateValue(id), delta_factor))
    /\ last_screen_op' = AdjustOp(id, delta_factor)
    /\ UNCHANGED <<outside_screen, screen_open, description_input, priority_input, posted_message>>

\* check_invalid_inputs
check_invalid_inputs(invalid) == Cardinality(invalid) > 0

\* what submit_changes posts
submit_changes ==
    IF check_invalid_inputs(invalid_inputs)
    THEN NoMessage
    ELSE Submit(description_input, priority_input, start_date_input, end_date_input)

\* F5: submit_changes, then pop_screen
action_save ==
    /\ screen_open
    /\ posted_message' = submit_changes
    /\ screen_open' = FALSE
    /\ last_screen_op' = "save"
    /\ UNCHANGED <<outside_screen, description_input, priority_input, start_date_input,
                   end_date_input, invalid_inputs>>

\* ESC, F4: pop_screen
action_close_modal ==
    /\ screen_open
    /\ screen_open' = FALSE
    /\ last_screen_op' = "close_modal"
    /\ UNCHANGED <<outside_screen, description_input, priority_input, start_date_input,
                   end_date_input, invalid_inputs, posted_message>>

NextScreen ==
    \/ PushScreen
    \/ \E id \in DateInputIds, value \in TypedDates : TypeDate(id, value)
    \/ \E description \in ScreenDescriptions, priority \in ScreenPriorities : TypeOther(description, priority)
    \/ \E id \in DateInputIds, delta_factor \in {INCREASE, DECREASE} : adjust_date(id, delta_factor)
    \/ action_save
    \/ action_close_modal

SpecScreen == InitIdle /\ [][NextScreen]_vars

(***************************************************************************)
(* Properties of the task edit screen                                      *)
(***************************************************************************)
\* C36: whenever a task edit screen is open and idle, invalid_inputs holds
\* exactly the ids of that screen's date inputs whose value is non-empty
\* and no valid YYYY-MM-DD date, also on a screen opened after an earlier
\* screen was closed while it held an invalid date.
C36_InvalidInputsAreTheInvalidDates ==
    screen_open =>
        invalid_inputs = {id \in DateInputIds : DateValue(id) # "" /\ ~is_valid_date(DateValue(id))}

\* an invalid start date was typed into the open screen and is recorded
C36_Witness ==
    /\ screen_open /\ last_screen_op = "type"
    /\ start_date_input = InvalidDate /\ end_date_input = "1970-01-03"
    /\ invalid_inputs = {"start_date"}

\* C37: whenever the Save action closes the task edit screen, a Submit
\* message with the current description, priority, start date and end date
\* was posted before the screen was popped.
C37_SaveSubmitsBeforeClosing ==
    [][(last_screen_op' = "save" /\ screen_open /\ ~screen_open') =>
        posted_message' = Submit(description_input, priority_input, start_date_input, end_date_input)
    ]_vars

\* Save closed a screen with a description and a start date, and posted them
C37_Witness ==
    /\ last_screen_op = "save" /\ ~screen_open
    /\ description_input = "a" /\ start_date_input = "1970-01-03"
    /\ posted_message = Submit("a", priority_input, "1970-01-03", end_date_input)

AdjustOps == {AdjustOp(id, delta_factor) : id \in DateInputIds, delta_factor \in {INCREASE, DECREASE}}

\* the date input and the direction an adjust handler is bound to
OpInput(op) == IF op \in {"increase_start_date", "decrease_start_date"} THEN "start_date" ELSE "end_date"
OpDelta(op) == IF op \in {"increase_start_date", "increase_end_date"} THEN INCREASE ELSE DECREASE

\* C38: adjust_date on a date input holding a valid date moves it by
\* exactly one day, so that the opposite adjustment restores the original
\* date; on an empty input it sets today's date; on an input holding an
\* invalid date it leaves the value unchanged; the other date input is
\* never changed.
C38_AdjustDate ==
    [][last_screen_op' \in AdjustOps =>
        LET id == OpInput(last_screen_op')
            delta == OpDelta(last_screen_op')
            old == DateValue(id)
            new == IF id = "start_date" THEN start_date_input' ELSE end_date_input'
        IN  /\ is_valid_date(old) =>
                /\ is_valid_date(new)
                /\ DayNumber(new) = DayNumber(old) + delta
                /\ AdjustedValue(new, 0 - delta) = old
            /\ old = "" => new = strftime(today_timestamp)
            /\ (old # "" /\ ~is_valid_date(old)) => new = old
            /\ id = "start_date" => end_date_input' = end_date_input
            /\ id = "end_date" => start_date_input' = start_date_input
    ]_vars

\* the start date was moved from one valid date to the next one, the end
\* date holding a date of its own
C38_Witness ==
    /\ last_screen_op = "increase_start_date"
    /\ start_date_input = "1970-01-02"
    /\ end_date_input = "1970-01-03"

(***************************************************************************)
(* The theme loader's config file (ThemeLoader.get_previously_used_theme,  *)
(* ThemeLoader.save_theme_to_config).  The file is also changed from       *)
(* outside the application.  A file the process cannot read it cannot      *)
(* write either.                                                           *)
(***************************************************************************)
ThemeNames == {"nord", "dracula"}

DefaultThemeNames == {"textual-dark", "nord"}

\* the Path object handed to both methods
ThemeConfigPath == "theme_config.json"

ThemeFiles ==
    { Missing,
      ThemeFile("unreadable", ""),          \* open raises IOError
      ThemeFile("malformed", ""),           \* no JSON text
      ThemeFile("array", ""),               \* the JSON text []
      ThemeFile("object_without_theme", "") \* the JSON text {}
    } \cup { ThemeFile("object", theme_name) : theme_name \in ThemeNames }

\* the value get_previously_used_theme returns, or the exception it raises
get_previously_used_theme(config_file, theme_config_file_path, default_theme_name) ==
    CASE config_file.kind = "missing" -> default_theme_name
      [] config_file.kind \in {"unreadable", "malformed"} -> default_theme_name
      [] config_file.kind = "object" -> config_file.theme
      [] config_file.kind = "object_without_theme" -> theme_config_file_path
      [] config_file.kind = "array" -> "AttributeError"

outside_theme == <<task_vars, topic_vars, notes_vars, screen_vars>>

GetPreviouslyUsedTheme(default_theme_name) ==
    /\ error = NoError
    /\ LET result == get_previously_used_theme(theme_config_file, ThemeConfigPath, default_theme_name)
       IN  IF theme_config_file.kind = "array"
           THEN error' = result /\ UNCHANGED returned_theme
           ELSE returned_theme' = result /\ UNCHANGED error
    /\ last_theme_op' = ThemeOp("get", default_theme_name)
    /\ UNCHANGED <<outside_theme, theme_config_file, theme_file_writable>>

\* json.dump({'theme': theme_name}) into the file opened with 'w'; IOError
\* is logged
save_theme_to_config(theme_name, config_file, writable) ==
    IF writable THEN ThemeFile("object", theme_name) ELSE config_file

SaveThemeToConfig(theme_name) ==
    /\ error = NoError
    /\ theme_config_file' = save_theme_to_config(theme_name, theme_config_file, theme_file_writable)
    /\ last_theme_op' = ThemeOp("save", theme_name)
    /\ UNCHANGED <<outside_theme, theme_file_writable, returned_theme, error>>

\* the file is edited, removed or protected outside the application
ThemeFileChanges(config_file, writable) ==
    /\ error = NoError
    /\ <<config_file, writable>> # <<theme_config_file, theme_file_writable>>
    /\ config_file.kind = "unreadable" => ~writable
    /\ theme_config_file' = config_file
    /\ theme_file_writable' = writable
    /\ last_theme_op' = ThemeOp("file_changes", "")
    /\ UNCHANGED <<outside_theme, returned_theme, error>>

NextTheme ==
    \/ \E default_theme_name \in DefaultThemeNames : GetPreviouslyUsedTheme(default_theme_name)
    \/ \E theme_name \in ThemeNames : SaveThemeToConfig(theme_name)
    \/ \E config_file \in ThemeFiles, writable \in BOOLEAN : ThemeFileChanges(config_file, writable)

SpecTheme == InitIdle /\ [][NextTheme]_vars

(***************************************************************************)
(* Properties of the theme config file                                     *)
(***************************************************************************)
\* C39: get_previously_used_theme returns the stored theme name when the
\* theme config file exists and holds a theme entry, and
\* default_theme_name in every other case (file missing, unreadable,
\* malformed, or without a theme entry); a name written by
\* save_theme_to_config is the name returned afterwards.
C39_PreviousThemeOrDefault ==
    [][last_theme_op'.op = "get" =>
        /\ error' = NoError
        /\ returned_theme' = IF theme_config_file.kind = "object"
                             THEN theme_config_file.theme
                             ELSE last_theme_op'.arg
        /\ (last_theme_op.op = "save" /\ theme_file_writable) =>
               returned_theme' = last_theme_op.arg
    ]_vars

\* a name was saved over a file without theme entry and returned afterwards
C39_Witness ==
    /\ last_theme_op.op = "get" /\ error = NoError
    /\ theme_config_file = ThemeFile("object", "dracula")
    /\ returned_theme = "dracula"
    /\ last_theme_op.arg = "textual-dark"

====
